---- MODULE Spec2Model ----
(***************************************************************************)
(* Solaris vector database: the collection coordinator (Collection and     *)
(* Database of untitled.rs), the in-memory document store                  *)
(* (memory_storage.rs), the HNSW index (hnsw.rs), the distance kernels     *)
(* (distance.rs), input validation (validation.rs) and metadata filters    *)
(* (filter.rs).                                                            *)
(*                                                                         *)
(* Vectors are sequences of small integers.  Each thread runs one          *)
(* operation at a time; an operation is cut into steps at its accesses to  *)
(* shared state (store lock, index lock).                                  *)
(***************************************************************************)
EXTENDS Integers, Sequences, FiniteSets, TLC

\* Option<String>::None, for an ID
None == "none"

\* Option<T> for the other types: <<>> is None, <<x>> is Some(x)
NoneOpt == <<>>
Some(x) == <<x>>
IsSome(o) == o # <<>>
Unwrap(o) == o[1]

Min(a, b) == IF a <= b THEN a ELSE b
Max(a, b) == IF a >= b THEN a ELSE b
Abs(x) == IF x < 0 THEN -x ELSE x

\* f32::INFINITY, above every distance of the model.
INFINITY == 1000000

\* the default ef of a search: k.max(50)
DefaultEf == 50

(***************************************************************************)
(* utils/distance.rs, in integer arithmetic: the square roots and the      *)
(* quotient of the cosine are rounded down.  The Euclidean and Manhattan   *)
(* distances between the vectors of the model are whole numbers.           *)
(***************************************************************************)
\* a.zip(b).map(|(x, y)| x * y).sum() over the first i components
RECURSIVE SumTo(_, _, _)
SumTo(a, b, i) == IF i = 0 THEN 0 ELSE a[i] * b[i] + SumTo(a, b, i - 1)

dot_product(a, b) == SumTo(a, b, Min(Len(a), Len(b)))

RECURSIVE ISqrtFrom(_, _)
ISqrtFrom(n, r) == IF (r + 1) * (r + 1) > n THEN r ELSE ISqrtFrom(n, r + 1)
\* f32::sqrt, rounded down
Sqrt(n) == ISqrtFrom(n, 0)

norm(v) == Sqrt(dot_product(v, v))

Diff(a, b) == [i \in 1..Min(Len(a), Len(b)) |-> a[i] - b[i]]
AbsSeq(a) == [i \in 1..Len(a) |-> Abs(a[i])]
Ones(n) == [i \in 1..n |-> 1]

euclidean_distance(a, b) == Sqrt(dot_product(Diff(a, b), Diff(a, b)))

manhattan_distance(a, b) ==
    dot_product(AbsSeq(Diff(a, b)), Ones(Min(Len(a), Len(b))))

dot_product_distance(a, b) == 1 - dot_product(a, b)

\* cosine_distance, lines 18-22: from the dot product and the two norms
cosine_of(dot, norm_a, norm_b) ==
    IF norm_a = 0 \/ norm_b = 0 THEN 1
    ELSE 1 - (dot \div (norm_a * norm_b))

cosine_distance(a, b) == cosine_of(dot_product(a, b), norm(a), norm(b))

calculate_distance(a, b, metric) ==
    CASE metric = "Cosine" -> cosine_distance(a, b)
      [] metric = "Euclidean" -> euclidean_distance(a, b)
      [] metric = "Manhattan" -> manhattan_distance(a, b)
      [] metric = "DotProduct" -> dot_product_distance(a, b)

(***************************************************************************)
(* std BinaryHeap of SearchCandidate, as hnsw.rs uses it: a max-heap on    *)
(* .distance kept in a vector; element i (0-based) is data[i + 1].         *)
(***************************************************************************)
SearchCandidate(id, distance) == [id |-> id, distance |-> distance]

Swap(data, i, j) == [data EXCEPT ![i + 1] = data[j + 1], ![j + 1] = data[i + 1]]

RECURSIVE sift_up(_, _, _)
sift_up(data, start, pos) ==
    IF pos > start
    THEN LET parent == (pos - 1) \div 2
         IN  IF data[pos + 1].distance <= data[parent + 1].distance
             THEN data
             ELSE sift_up(Swap(data, pos, parent), start, parent)
    ELSE data

RECURSIVE sift_down_to_bottom(_, _)
sift_down_to_bottom(data, pos) ==
    LET end == Len(data)
        child == 2 * pos + 1
    IN  IF child + 2 <= end
        THEN LET c == IF data[child + 1].distance <= data[child + 2].distance
                      THEN child + 1 ELSE child
             IN  sift_down_to_bottom(Swap(data, pos, c), c)
        ELSE IF child = end - 1
             THEN sift_up(Swap(data, pos, child), 0, child)
             ELSE sift_up(data, 0, pos)

heap_push(data, item) == sift_up(Append(data, item), 0, Len(data))

\* the heap left by pop(); the popped element is data[1]
heap_pop(data) ==
    IF Len(data) <= 1 THEN <<>>
    ELSE sift_down_to_bottom(
             [SubSeq(data, 1, Len(data) - 1) EXCEPT ![1] = data[Len(data)]], 0)

(***************************************************************************)
(* index/hnsw.rs.  An index is [nodes, entry_point, max_level]; nodes maps *)
(* the IDs present to [vector, connections, level].                        *)
(***************************************************************************)
Node(vector, level) ==
    [vector |-> vector, connections |-> [l \in 1..(level + 1) |-> <<>>],
     level |-> level]

EmptyNodes == [x \in {} |-> None]

HNSWIndexNew == [nodes |-> EmptyNodes, entry_point |-> None, max_level |-> 0]

\* HashMap::insert
MapInsert(map, key, value) ==
    [x \in (DOMAIN map) \cup {key} |-> IF x = key THEN value ELSE map[x]]

\* HashMap::remove
MapRemove(map, key) == [x \in (DOMAIN map) \ {key} |-> map[x]]

\* search_layer, lines 152-165: the entry points seed both heaps
RECURSIVE sl_init(_, _, _, _, _)
sl_init(nodes, metric, query, entry_points, s) ==
    IF entry_points = <<>> THEN s
    ELSE LET ep == Head(entry_points)
             distance == calculate_distance(query, nodes[ep].vector, metric)
         IN  sl_init(nodes, metric, query, Tail(entry_points),
                 IF ep \in DOMAIN nodes
                 THEN [s EXCEPT
                         !.visited = @ \cup {ep},
                         !.candidates = heap_push(@, SearchCandidate(ep, -distance)),
                         !.w = heap_push(@, SearchCandidate(ep, distance))]
                 ELSE s)

\* a neighbor joins the heaps only while w is not full
never_evict(num_closest, neighbor_id, distance, s) ==
    IF Len(s.w) < num_closest
    THEN [s EXCEPT
            !.candidates = heap_push(@, SearchCandidate(neighbor_id, -distance)),
            !.w = heap_push(@, SearchCandidate(neighbor_id, distance))]
    ELSE s

\* search_layer, lines 186-207: a neighbor at that distance joins the heaps
\* when w is not full or the neighbor beats the furthest of w
sl_consider(num_closest, neighbor_id, distance, s) ==
    IF Len(s.w) < num_closest
    THEN [s EXCEPT
            !.candidates = heap_push(@, SearchCandidate(neighbor_id, -distance)),
            !.w = heap_push(@, SearchCandidate(neighbor_id, distance))]
    ELSE IF s.w # <<>> /\ distance < s.w[1].distance
    THEN [s EXCEPT
            !.candidates = heap_push(@, SearchCandidate(neighbor_id, -distance)),
            !.w = heap_push(heap_pop(@), SearchCandidate(neighbor_id, distance))]
    ELSE s

\* search_layer, lines 180-209: one neighbor of the node being expanded
sl_visit(nodes, metric, query, num_closest, neighbor_id, s) ==
    IF neighbor_id \in s.visited THEN s
    ELSE IF neighbor_id \notin DOMAIN nodes
    THEN [s EXCEPT !.visited = @ \cup {neighbor_id}]
    ELSE sl_consider(num_closest, neighbor_id,
             calculate_distance(query, nodes[neighbor_id].vector, metric),
             [s EXCEPT !.visited = @ \cup {neighbor_id}])

RECURSIVE sl_expand(_, _, _, _, _, _)
sl_expand(nodes, metric, query, num_closest, neighbors, s) ==
    IF neighbors = <<>> THEN s
    ELSE sl_expand(nodes, metric, query, num_closest, Tail(neighbors),
             sl_visit(nodes, metric, query, num_closest, Head(neighbors), s))

\* search_layer, lines 177-212: the neighbors of current_id at that layer
sl_neighbors(nodes, current_id, level) ==
    IF current_id \in DOMAIN nodes /\ level < Len(nodes[current_id].connections)
    THEN nodes[current_id].connections[level + 1]
    ELSE <<>>

\* a loop that also ends when the candidate is as far as the furthest of w
RECURSIVE break_on_equal(_, _, _, _, _, _)
break_on_equal(nodes, metric, query, num_closest, level, s) ==
    IF s.candidates = <<>> THEN s
    ELSE IF s.w # <<>> /\ -s.candidates[1].distance >= s.w[1].distance
    THEN [s EXCEPT !.candidates = heap_pop(@), !.broke = TRUE]
    ELSE break_on_equal(nodes, metric, query, num_closest, level,
             sl_expand(nodes, metric, query, num_closest,
                 sl_neighbors(nodes, s.candidates[1].id, level),
                 [s EXCEPT !.candidates = heap_pop(@)]))

\* search_layer, lines 167-213: the while-let loop; broke tells that it
\* ended at the break of line 173
RECURSIVE sl_loop(_, _, _, _, _, _)
sl_loop(nodes, metric, query, num_closest, level, s) ==
    IF s.candidates = <<>> THEN s
    ELSE IF s.w # <<>> /\ -s.candidates[1].distance > s.w[1].distance
    THEN [s EXCEPT !.candidates = heap_pop(@), !.broke = TRUE]
    ELSE sl_loop(nodes, metric, query, num_closest, level,
             sl_expand(nodes, metric, query, num_closest,
                 sl_neighbors(nodes, s.candidates[1].id, level),
                 [s EXCEPT !.candidates = heap_pop(@)]))

\* search_layer, lines 148-213: the state [visited, candidates, w, broke]
\* in which the loop ends
sl_run(nodes, metric, query, entry_points, num_closest, level) ==
    sl_loop(nodes, metric, query, num_closest, level,
        sl_init(nodes, metric, query, entry_points,
            [visited |-> {}, candidates |-> <<>>, w |-> <<>>,
             broke |-> FALSE]))

\* search_layer, line 215: the IDs of w in the order of its vector
w_ids(s) == [i \in 1..Len(s.w) |-> s.w[i].id]

search_layer(nodes, metric, query, entry_points, num_closest, level) ==
    w_ids(sl_run(nodes, metric, query, entry_points, num_closest, level))

\* select_neighbors_heuristic, lines 239-245
RECURSIVE min_distance_to_selected(_, _, _, _)
min_distance_to_selected(nodes, metric, candidate_vector, selected) ==
    IF selected = <<>> THEN INFINITY
    ELSE Min(min_distance_to_selected(nodes, metric, candidate_vector,
                                      Tail(selected)),
             IF Head(selected) \in DOMAIN nodes
             THEN calculate_distance(candidate_vector,
                                     nodes[Head(selected)].vector, metric)
             ELSE INFINITY)

\* select_neighbors_heuristic, lines 237-251
candidate_score(nodes, metric, vector, candidate_id, selected) ==
    calculate_distance(vector, nodes[candidate_id].vector, metric)
    - (IF selected = <<>> THEN 0
       ELSE min_distance_to_selected(nodes, metric,
                nodes[candidate_id].vector, selected))

\* a scan that lets a later candidate of equal score win
better_or_equal(best, idx, score) ==
    IF score <= best.score THEN [idx |-> idx, score |-> score] ELSE best

\* select_neighbors_heuristic, lines 253-256
better_of(best, idx, score) ==
    IF score < best.score THEN [idx |-> idx, score |-> score] ELSE best

\* select_neighbors_heuristic, lines 232-258: the scan for the best remaining
\* candidate; best is [idx, score], idx 0-based
RECURSIVE best_candidate(_, _, _, _, _, _, _)
best_candidate(nodes, metric, vector, remaining, selected, idx, best) ==
    IF idx >= Len(remaining) THEN best
    ELSE best_candidate(nodes, metric, vector, remaining, selected, idx + 1,
             IF remaining[idx + 1] \in DOMAIN nodes
             THEN better_of(best, idx,
                      candidate_score(nodes, metric, vector,
                                      remaining[idx + 1], selected))
             ELSE best)

\* Vec::remove(idx), idx 0-based
VecRemove(v, idx) == SubSeq(v, 1, idx) \o SubSeq(v, idx + 2, Len(v))

\* select_neighbors_heuristic, line 260
sn_take(selected, remaining, best_idx) ==
    [selected |-> Append(selected, remaining[best_idx + 1]),
     remaining |-> VecRemove(remaining, best_idx)]

\* select_neighbors_heuristic, lines 231-261; r is [selected, remaining]
RECURSIVE sn_loop(_, _, _, _, _)
sn_loop(nodes, metric, vector, m, r) ==
    IF Len(r.selected) < m /\ r.remaining # <<>>
    THEN sn_loop(nodes, metric, vector, m,
             sn_take(r.selected, r.remaining,
                 best_candidate(nodes, metric, vector, r.remaining, r.selected,
                     0, [idx |-> 0, score |-> INFINITY]).idx))
    ELSE r.selected

select_neighbors_heuristic(nodes, metric, vector, candidates, m) ==
    IF Len(candidates) <= m THEN candidates
    ELSE sn_loop(nodes, metric, vector, m,
                 [selected |-> <<>>, remaining |-> candidates])

\* add_vector, lines 79-81: the descent through the layers above the new
\* node's level
RECURSIVE greedy_descent(_, _, _, _, _, _)
greedy_descent(nodes, metric, query, current_closest, lc, lowest) ==
    IF lc < lowest THEN current_closest
    ELSE greedy_descent(nodes, metric, query,
             search_layer(nodes, metric, query, current_closest, 1, lc),
             lc - 1, lowest)

\* add_vector, lines 88-94: the new ID is pushed onto each selected neighbor
RECURSIVE push_back_references(_, _, _, _)
push_back_references(nodes, selected, id, lc) ==
    IF selected = <<>> THEN nodes
    ELSE LET neighbor_id == Head(selected)
         IN  push_back_references(
                 IF /\ neighbor_id \in DOMAIN nodes
                    /\ nodes[neighbor_id].level >= lc
                 THEN [nodes EXCEPT ![neighbor_id].connections[lc + 1] =
                                        Append(@, id)]
                 ELSE nodes,
                 Tail(selected), id, lc)

\* add_vector, lines 96-98: connections[lc] of a node already stored under
\* id is assigned; the index is out of bounds (a panic) when that node has
\* fewer than lc + 1 layers.  [nodes, current_closest, panicked]
set_connections(nodes, id, lc, selected) ==
    IF id \in DOMAIN nodes
    THEN IF lc >= Len(nodes[id].connections)
         THEN [nodes |-> nodes, current_closest |-> selected, panicked |-> TRUE]
         ELSE [nodes |-> [nodes EXCEPT ![id].connections[lc + 1] = selected],
               current_closest |-> selected, panicked |-> FALSE]
    ELSE [nodes |-> nodes, current_closest |-> selected, panicked |-> FALSE]

\* add_vector, lines 86-100: one layer, from the candidates search_layer found
build_layer(config, id, vector, lc, nodes, selected) ==
    set_connections(push_back_references(nodes, selected, id, lc), id, lc,
                    selected)

\* add_vector, lines 83-101: the turns of the construction loop from layer
\* lc down to layer lowest; b is [nodes, current_closest, panicked]
RECURSIVE build_down_to(_, _, _, _, _, _)
build_down_to(config, id, vector, lc, lowest, b) ==
    IF lc < lowest \/ b.panicked THEN b
    ELSE build_down_to(config, id, vector, lc - 1, lowest,
             build_layer(config, id, vector, lc, b.nodes,
                 select_neighbors_heuristic(b.nodes, config.metric, vector,
                     search_layer(b.nodes, config.metric, vector,
                         b.current_closest, config.ef_construction, lc),
                     config.m)))

\* add_vector, lines 83-101: the construction loop, lc from min(level,
\* max_level) down to 0
build_layers(config, id, vector, lc, b) ==
    build_down_to(config, id, vector, lc, 0, b)

\* an install that stores the new node and leaves the entry point and
\* max_level as they are
keep_entry(index, id, node, built) ==
    IF built.panicked
    THEN [index |-> [index EXCEPT !.nodes = built.nodes], panicked |-> TRUE]
    ELSE [index |-> [index EXCEPT !.nodes = MapInsert(built.nodes, id, node)],
          panicked |-> FALSE]

\* add_vector, lines 103-109: the entry point moves to a node of a higher
\* level, and the new node is stored
install_node(index, id, node, built) ==
    IF built.panicked
    THEN [index |-> [index EXCEPT !.nodes = built.nodes], panicked |-> TRUE]
    ELSE [index |->
             [nodes |-> MapInsert(built.nodes, id, node),
              entry_point |-> IF node.level > index.max_level
                              THEN id ELSE index.entry_point,
              max_level |-> Max(node.level, index.max_level)],
          panicked |-> FALSE]

\* an add_vector that leaves a node already under id as it is
add_if_absent(index, config, id, vector, level) ==
    IF id \in DOMAIN index.nodes
    THEN [index |-> index, panicked |-> FALSE]
    ELSE [index |-> [index EXCEPT !.nodes = MapInsert(@, id, Node(vector, level))],
          panicked |-> FALSE]

\* HNSWIndex::add_vector with the level get_random_level drew.  The result
\* is [index, panicked].
add_vector(index, config, id, vector, level) ==
    IF index.entry_point = None
    THEN [index |-> [nodes |-> MapInsert(index.nodes, id, Node(vector, level)),
                     entry_point |-> id, max_level |-> level],
          panicked |-> FALSE]
    ELSE install_node(index, id, Node(vector, level),
             build_layers(config, id, vector, Min(level, index.max_level),
                 [nodes |-> index.nodes,
                  current_closest |->
                      greedy_descent(index.nodes, config.metric, vector,
                          <<index.entry_point>>, index.max_level, level + 1),
                  panicked |-> FALSE]))

\* the place of x in a list sorted by distance, after its equals
insert_sorted(sorted, x) ==
    LET n == Cardinality({i \in 1..Len(sorted) : sorted[i][2] <= x[2]})
    IN  [i \in 1..(Len(sorted) + 1) |->
            IF i <= n THEN sorted[i] ELSE IF i = n + 1 THEN x ELSE sorted[i - 1]]

\* a sort that leaves the list as it finds it
keep_order(result) == result

\* slice::par_sort_by on (id, distance) pairs: a stable sort by distance
RECURSIVE sort_by_distance(_)
sort_by_distance(result) ==
    IF result = <<>> THEN <<>>
    ELSE insert_sorted(sort_by_distance(SubSeq(result, 1, Len(result) - 1)),
                       result[Len(result)])

\* Vec::truncate
Truncate(v, k) == SubSeq(v, 1, Min(k, Len(v)))

\* search, lines 126-133: the exact distance of each candidate still in nodes
RECURSIVE with_distances(_, _, _, _)
with_distances(nodes, metric, query, candidates) ==
    IF candidates = <<>> THEN <<>>
    ELSE (IF Head(candidates) \in DOMAIN nodes
          THEN << <<Head(candidates),
                    calculate_distance(query, nodes[Head(candidates)].vector,
                                       metric)>> >>
          ELSE <<>>)
         \o with_distances(nodes, metric, query, Tail(candidates))

\* HNSWIndex::search; ef is an Option<usize>
search(index, config, query, k, ef) ==
    IF index.entry_point = None THEN <<>>
    ELSE Truncate(sort_by_distance(
             with_distances(index.nodes, config.metric, query,
                 search_layer(index.nodes, config.metric, query,
                     greedy_descent(index.nodes, config.metric, query,
                         <<index.entry_point>>, index.max_level, 1),
                     IF IsSome(ef) THEN Unwrap(ef) ELSE Max(k, DefaultEf),
                     0))),
             k)

\* HNSWIndex::remove_vector, lines 284-292: back-references to id are scrubbed
\* from the removed node's own neighbors; links is that node's connections
RECURSIVE scrub_level(_, _, _, _)
scrub_level(nodes, neighbors, id, level) ==
    IF neighbors = <<>> THEN nodes
    ELSE LET neighbor_id == Head(neighbors)
         IN  scrub_level(
                 IF /\ neighbor_id \in DOMAIN nodes
                    /\ level < Len(nodes[neighbor_id].connections)
                 THEN [nodes EXCEPT ![neighbor_id].connections[level + 1] =
                          SelectSeq(@, LAMBDA x : x # id)]
                 ELSE nodes,
                 Tail(neighbors), id, level)

RECURSIVE scrub(_, _, _, _)
scrub(nodes, links, id, level) ==
    IF level >= Len(links) THEN nodes
    ELSE scrub(scrub_level(nodes, links[level + 1], id, level), links, id,
               level + 1)

\* a removal that leaves the entry point as it was
keep_removed_entry(index, nodes, id, new_entry) ==
    [index EXCEPT !.nodes = nodes]

\* remove_vector, lines 294-301: a removed entry point is replaced by
\* new_entry, and max_level by that node's level
replace_entry(index, nodes, id, new_entry) ==
    IF index.entry_point = id
    THEN [nodes |-> nodes, entry_point |-> new_entry,
          max_level |-> IF new_entry \in DOMAIN nodes
                        THEN nodes[new_entry].level
                        ELSE index.max_level]
    ELSE [index EXCEPT !.nodes = nodes]

\* HNSWIndex::remove_vector; new_entry is the key self.nodes.keys().next()
\* yields, any remaining key (None when no key remains).  [index, removed]
remove_vector(index, id, new_entry) ==
    IF id \in DOMAIN index.nodes
    THEN [index |-> replace_entry(index,
                        scrub(MapRemove(index.nodes, id),
                              index.nodes[id].connections, id, 0),
                        id, new_entry),
          removed |-> TRUE]
    ELSE [index |-> index, removed |-> FALSE]

\* the keys HashMap::keys().next() can yield once id is removed
NextKeys(index, id) ==
    IF DOMAIN index.nodes \ {id} = {} THEN {None} ELSE DOMAIN index.nodes \ {id}

(***************************************************************************)
(* utils/validation.rs.  A validator yields "Ok" or the name of its error. *)
(***************************************************************************)
MaxIdLen == 256
MaxMetadataEntries == 100
MaxLimit == 10000
MaxEf == 10000

\* f32::is_finite; INFINITY and -INFINITY stand for the non-finite values
is_finite(value) == value # INFINITY /\ value # -INFINITY

\* a validation that lets a vector of any length pass
any_length(vector, expected_dimension) ==
    IF \E i \in 1..Len(vector) : ~is_finite(vector[i])
    THEN "InvalidValues"
    ELSE "Ok"

validate_vector(vector, expected_dimension) ==
    IF Len(vector) # expected_dimension THEN "DimensionMismatch"
    ELSE IF \E i \in 1..Len(vector) : ~is_finite(vector[i])
    THEN "InvalidValues"
    ELSE "Ok"

validate_vector_id(id) ==
    IF Len(id) = 0 THEN "EmptyId"
    ELSE IF Len(id) > MaxIdLen THEN "IdTooLong"
    ELSE "Ok"

validate_vector_document(document, expected_dimension) ==
    IF validate_vector_id(document.id) # "Ok"
    THEN validate_vector_id(document.id)
    ELSE IF validate_vector(document.vector, expected_dimension) # "Ok"
    THEN validate_vector(document.vector, expected_dimension)
    ELSE IF IsSome(document.metadata)
            /\ Len(Unwrap(document.metadata)) > MaxMetadataEntries
    THEN "TooManyMetadataEntries"
    ELSE IF IsSome(document.metadata)
            /\ \E i \in 1..Len(Unwrap(document.metadata)) :
                   Len(Unwrap(document.metadata)[i][1]) = 0
    THEN "EmptyMetadataKey"
    ELSE "Ok"

MaxDimension == 10000
MaxM == 100

validate_collection_config(config) ==
    IF Len(config.name) = 0 THEN "EmptyCollectionName"
    ELSE IF config.dimension = 0 \/ config.dimension > MaxDimension
    THEN "InvalidDimension"
    ELSE IF config.m = 0 \/ config.m > MaxM \/ config.ef_construction < config.m
    THEN "InvalidHNSWParams"
    ELSE "Ok"

validate_search_params(query_vector, expected_dimension, limit, ef) ==
    IF validate_vector(query_vector, expected_dimension) # "Ok"
    THEN validate_vector(query_vector, expected_dimension)
    ELSE IF limit = 0 THEN "LimitZero"
    ELSE IF limit > MaxLimit THEN "LimitTooLarge"
    ELSE IF IsSome(ef) /\ Unwrap(ef) < limit THEN "EfBelowLimit"
    ELSE IF IsSome(ef) /\ Unwrap(ef) > MaxEf THEN "EfTooLarge"
    ELSE "Ok"

(***************************************************************************)
(* utils/filter.rs.  Metadata is a sequence of <<key, value>> pairs.       *)
(***************************************************************************)
\* get_metadata_value: the value of the first pair with that key
\* str::starts_with, str::ends_with and str::contains, on strings given as
\* sequences of characters
starts_with(value, pattern) ==
    /\ Len(pattern) <= Len(value)
    /\ SubSeq(value, 1, Len(pattern)) = pattern
ends_with(value, pattern) ==
    /\ Len(pattern) <= Len(value)
    /\ SubSeq(value, Len(value) - Len(pattern) + 1, Len(value)) = pattern
contains(value, pattern) ==
    \E n \in 0..(Len(value) - Len(pattern)) :
        SubSeq(value, n + 1, n + Len(pattern)) = pattern

\* a lookup that yields the value of the last pair of that key
last_metadata_value(metadata, key) ==
    LET hits == {i \in 1..Len(metadata) : metadata[i][1] = key}
    IN  IF hits = {} THEN NoneOpt
        ELSE Some(metadata[CHOOSE i \in hits : \A j \in hits : i >= j][2])

get_metadata_value(metadata, key) ==
    LET hits == {i \in 1..Len(metadata) : metadata[i][1] = key}
    IN  IF hits = {} THEN NoneOpt
        ELSE Some(metadata[CHOOSE i \in hits : \A j \in hits : i <= j][2])

evaluate_condition(document, condition) ==
    IF IsSome(document.metadata)
    THEN LET value == get_metadata_value(Unwrap(document.metadata),
                                         condition.key)
         IN  IF IsSome(value)
             THEN CASE condition.operation = "Equals" ->
                           Unwrap(value) = condition.value
                    [] condition.operation = "NotEquals" ->
                           Unwrap(value) # condition.value
                    [] condition.operation = "Contains" ->
                           contains(Unwrap(value), condition.value)
                    [] condition.operation = "StartsWith" ->
                           starts_with(Unwrap(value), condition.value)
                    [] condition.operation = "EndsWith" ->
                           ends_with(Unwrap(value), condition.value)
             ELSE FALSE
    ELSE FALSE

\* an evaluation without the case of the empty condition list
evaluate_conditions(document, filter) ==
    CASE filter.operator = "And" ->
             \A i \in 1..Len(filter.conditions) :
                 evaluate_condition(document, filter.conditions[i])
      [] filter.operator = "Or" ->
             \E i \in 1..Len(filter.conditions) :
                 evaluate_condition(document, filter.conditions[i])

evaluate_filter(document, filter) ==
    IF filter.conditions = <<>> THEN TRUE
    ELSE CASE filter.operator = "And" ->
                  \A i \in 1..Len(filter.conditions) :
                      evaluate_condition(document, filter.conditions[i])
           [] filter.operator = "Or" ->
                  \E i \in 1..Len(filter.conditions) :
                      evaluate_condition(document, filter.conditions[i])

(***************************************************************************)
(* storage/memory_storage.rs.  The data map holds, for each ID present,    *)
(* [id, vector, metadata].  Every method runs under the store's own lock,  *)
(* taken and released inside the call.                                     *)
(***************************************************************************)
VectorDocument(id, vector, metadata) ==
    [id |-> id, vector |-> vector, metadata |-> metadata]

\* a store that keeps no document
store_nothing(data, id, vector, metadata, timestamp) == data

\* MemoryStorage::store; timestamp is what SystemTime::now() gives at line 25
store(data, id, vector, metadata, timestamp) ==
    MapInsert(data, id, [id |-> id, vector |-> vector, metadata |-> metadata,
                         timestamp |-> timestamp])

\* MemoryStorage::get
get(data, id) == IF id \in DOMAIN data THEN Some(data[id]) ELSE NoneOpt

\* MemoryStorage::get_metadata
get_metadata(data, id) ==
    IF id \in DOMAIN data THEN data[id].metadata ELSE NoneOpt

\* MemoryStorage::remove: [data, removed]
remove(data, id) ==
    [data |-> MapRemove(data, id), removed |-> id \in DOMAIN data]

\* an update that writes the document anew, with the time of the update
restamp(data, id, metadata) ==
    IF id \in DOMAIN data
    THEN [data |-> [data EXCEPT ![id].metadata = metadata,
                                ![id].timestamp = @ + 1],
          updated |-> TRUE]
    ELSE [data |-> data, updated |-> FALSE]

\* MemoryStorage::update_metadata: [data, updated]
update_metadata(data, id, metadata) ==
    IF id \in DOMAIN data
    THEN [data |-> [data EXCEPT ![id].metadata = metadata], updated |-> TRUE]
    ELSE [data |-> data, updated |-> FALSE]

(***************************************************************************)
(* Bounds and inputs of the model                                          *)
(***************************************************************************)
\* operations started in one behaviour: by concurrent threads, one at a time
MaxOps == 4
MaxSeqOps == 5
MaxDbOps == 3
MaxBatchOps == 3
MaxFaultOps == 3
MaxCoreOps == 3
\* collections the database admits (SolarisConfig: max_collections)
MaxCollections == 1
\* highest level get_random_level draws in the model (the code caps at 16)
MaxLevel == 1
LevelCap == 16
\* dimension, m and ef_construction of the collection
Dim == 2
M == 2
EfConstruction == 2
\* largest k of a search
MaxK == 2

Threads == {"t1", "t2"}
\* the threads of the rayon pool that run the items of a batch
Workers == {"w1", "w2"}
Tasks == Threads \cup Workers
IDs == {"a", "b", "c"}

\* a vector of the collection's dimension, padded with zeros
Pad(v) == [i \in 1..Dim |-> IF i <= Len(v) THEN v[i] ELSE 0]
Origin == Pad(<<0, 0>>)
\* a vector of the wrong length
ShortVector == [i \in 1..(Dim - 1) |-> 1]
Article == Some(<<<<"type", "article">>>>)
ArticleFilter ==
    [conditions |-> <<[key |-> "type", value |-> "article",
                       operation |-> "Equals"]>>,
     operator |-> "And"]
Levels == 0..Min(LevelCap, MaxLevel)

\* the documents the threads insert: <<id, vector, metadata>>
Documents ==
    {<<"a", Origin, NoneOpt>>, <<"a", Pad(<<3, 0>>), Article>>,
     <<"b", Pad(<<3, 4>>), Article>>, <<"c", Pad(<<3, 0>>), NoneOpt>>,
     <<"c", ShortVector, NoneOpt>>}
\* s repeated n times
RECURSIVE Repeat(_, _)
Repeat(s, n) == IF n = 0 THEN "" ELSE s \o Repeat(s, n - 1)

\* documents validate_vector_document rejects, of the right dimension:
\* empty ID, overlong ID, empty metadata key, too many metadata entries
BadDocuments ==
    {<<"", Origin, NoneOpt>>,
     <<Repeat("a", MaxIdLen + 1), Origin, NoneOpt>>,
     <<"b", Pad(<<3, 4>>), Some(<<<<"", "article">>>>)>>,
     <<"c", Pad(<<3, 0>>),
       Some([i \in 1..(MaxMetadataEntries + 1) |-> <<"type", "article">>])>>}

\* the searches the threads run: <<query, limit, ef, filter>>
Queries ==
    {<<Origin, k, NoneOpt, NoneOpt>> : k \in 0..MaxK}
    \cup {<<Pad(<<3, 4>>), 1, NoneOpt, NoneOpt>>,
          <<Pad(<<3, 4>>), MaxK, Some(1), NoneOpt>>,
          <<Origin, MaxK, Some(MaxK), Some(ArticleFilter)>>,
          <<ShortVector, 1, NoneOpt, NoneOpt>>}

\* searches beyond the limits of validate_search_params: limit too large,
\* ef too large, a non-finite component
LargeQueries ==
    {<<Origin, MaxLimit + 1, NoneOpt, NoneOpt>>,
     <<Origin, 1, Some(MaxEf + 1), NoneOpt>>,
     <<[i \in 1..Dim |-> IF i = 1 THEN INFINITY ELSE 0], 1, NoneOpt, NoneOpt>>}

DocsConfig ==
    [name |-> "docs", dimension |-> Dim, metric |-> "Euclidean",
     ef_construction |-> EfConstruction, m |-> M]

(***************************************************************************)
(* State                                                                   *)
(***************************************************************************)
VARIABLES
    collections,  \* Database.collections: name -> Collection
    pc,           \* where each thread is in its operation
    op,           \* the arguments and locals of the operation a thread runs
    ret,          \* what the last step returned to its caller, if it returned
    nops,         \* operations started so far
    hist          \* history: what the operations did, for the properties

vars == <<collections, pc, op, ret, nops, hist>>

\* Collection::new.  index_lock is the RwLock around the index: poisoned by
\* a panic under the write guard.
\* storage_poisoned: the RwLock of MemoryStorage.data is poisoned; every
\* method of the store then returns an error
CollectionNew(config) ==
    [config |-> config,
     storage |-> EmptyNodes,
     storage_poisoned |-> FALSE,
     index |-> HNSWIndexNew,
     index_lock |-> [poisoned |-> FALSE, writer |-> None, readers |-> {}]]

\* batch and item: the batch_insert call and the request position an insert
\* serves (None and 0 for a direct call); items and done: the request of a
\* batch_insert and what its items have come to
NoOp ==
    [kind |-> "none", coll |-> None, id |-> None, vector |-> <<>>,
     metadata |-> NoneOpt, limit |-> 0, ef |-> NoneOpt, filter |-> NoneOpt,
     nearest |-> <<>>, results |-> <<>>,
     batch |-> None, item |-> 0, items |-> <<>>, done |-> <<>>]

NoRet == [thread |-> None, op |-> "none", status |-> "none", error |-> "",
          call |-> NoOp, value |-> <<>>]
\* value holds at 1 what the call returned and at 0 the kind of the call
Ok(t, call, v) ==
    [thread |-> t, op |-> call.kind, status |-> "Ok", error |-> "",
     call |-> call, value |-> [i \in 0..1 |-> IF i = 0 THEN call.kind ELSE v]]
Err(t, call, e) ==
    [thread |-> t, op |-> call.kind, status |-> "Err", error |-> e,
     call |-> call, value |-> <<>>]

LockError == "Failed to acquire lock"

\* a lock that any thread may take at any time
no_exclusion(lock) == TRUE

\* RwLock::write returns once no thread holds the lock, RwLock::read once no
\* thread holds it for writing
write_free(lock) == lock.writer = None /\ lock.readers = {}
read_free(lock) == lock.writer = None

\* what the deletes of one ID returned since an insert last wrote it; the
\* deletes whose store.remove came before that write are not counted
NoDeletes == [ins |-> FALSE, t |-> 0, f |-> 0, e |-> 0]

HistInit ==
    [deleted |-> {},                      \* delete returned true, no insert since
     dels |-> [id \in IDs |-> NoDeletes],
     stale |-> {},                        \* threads whose delete an insert overtook
     repeated |-> {},                     \* IDs written to the store while stored
     failed_insert |-> FALSE,             \* an insert failed after its store write
     plain |-> TRUE,                      \* only inserts of distinct IDs so far
     before |-> {},                       \* IDs stored when the last batch began
     once |-> TRUE]                       \* no ID was inserted twice so far

Init ==
    /\ collections = [c \in {"docs"} |-> CollectionNew(DocsConfig)]
    /\ pc = [t \in Tasks |-> "idle"]
    /\ op = [t \in Tasks |-> NoOp]
    /\ ret = NoRet
    /\ nops = 0
    /\ hist = HistInit

\* SystemTime::now(), in seconds: the clock of the model advances by one
\* second every CallsPerSecond calls
CallsPerSecond == 2
Now == nops \div CallsPerSecond

Idle(t) == pc[t] = "idle"
Running(t) == pc[t] \notin {"idle", "panicked"}

\* thread t starts an operation, the max_ops-th at most
CanStart(t, max_ops) ==
    /\ Idle(t)
    /\ nops < max_ops
    /\ nops' = nops + 1

\* what became of one item of a batch: pending, running, Ok, Err, panicked
ItemResult(state, id, error) == [state |-> state, id |-> id, error |-> error]

\* the operation of thread t returns r: to its caller, or for an item of a
\* batch into the results the batch collects (untitled.rs 293-294)
Return(t, r) ==
    /\ pc' = [pc EXCEPT ![t] = "idle"]
    /\ IF r.call.batch = None
       THEN /\ op' = [op EXCEPT ![t] = NoOp]
            /\ ret' = r
       ELSE /\ op' = [op EXCEPT ![t] = NoOp,
                                ![r.call.batch].done[r.call.item] =
                                    ItemResult(r.status, r.call.id, r.error)]
            /\ ret' = NoRet

\* thread t goes on to the step next_pc of operation o
Goto(t, next_pc, o) ==
    /\ pc' = [pc EXCEPT ![t] = next_pc]
    /\ op' = IF o.batch = None
             THEN [op EXCEPT ![t] = o]
             ELSE [op EXCEPT ![t] = o,
                             ![o.batch].done[o.item].state = "running"]
    /\ ret' = NoRet

\* thread t panics in operation o: the thread ends, or for an item of a batch
\* the pool catches the panic and keeps it for the caller
Panic(t, o) ==
    IF o.batch = None
    THEN Goto(t, "panicked", o)
    ELSE /\ pc' = [pc EXCEPT ![t] = "idle"]
         /\ op' = [op EXCEPT ![t] = NoOp,
                             ![o.batch].done[o.item].state = "panicked"]
         /\ ret' = NoRet

(***************************************************************************)
(* Collection::insert_vector                                               *)
(***************************************************************************)
\* lines 261-270: the document is validated and written to the store
insert_vector(t, c, id, call, v) ==
    IF v # "Ok"
    THEN /\ Return(t, Err(t, call, v))
         /\ UNCHANGED <<collections, hist>>
    ELSE IF collections[c].storage_poisoned
    THEN /\ Return(t, Err(t, call, LockError))
         /\ UNCHANGED <<collections, hist>>
    ELSE /\ collections' = [collections EXCEPT ![c].storage =
                               store(@, id, call.vector, call.metadata, Now)]
         /\ Goto(t, "insert_index", call)
         /\ hist' = [hist EXCEPT
                        !.deleted = @ \ {id},
                        !.dels[id] = [NoDeletes EXCEPT !.ins = TRUE],
                        !.stale = @ \cup {u \in Threads :
                                              /\ op[u].kind = "delete"
                                              /\ op[u].id = id},
                        !.repeated =
                            IF id \in DOMAIN collections[c].storage
                            THEN @ \cup {id} ELSE @,
                        !.plain = @ /\ id \notin DOMAIN collections[c].storage,
                        !.once = @ /\ ~hist.dels[id].ins]

\* a direct call of Collection::insert_vector
InsertVector(t, c, id, vector, metadata) ==
    insert_vector(t, c, id,
        [NoOp EXCEPT !.kind = "insert", !.coll = c, !.id = id,
                     !.vector = vector, !.metadata = metadata],
        validate_vector_document(VectorDocument(id, vector, metadata),
            collections[c].config.dimension))

\* line 272: self.index.write()
InsertIndexLock(t) ==
    /\ pc[t] = "insert_index"
    /\ LET c == op[t].coll
           lock == collections[c].index_lock
       IN  IF lock.poisoned
           THEN /\ Return(t, Err(t, op[t], LockError))
                /\ hist' = [hist EXCEPT !.failed_insert = TRUE]
                /\ UNCHANGED collections
           ELSE /\ write_free(lock)
                /\ collections' = [collections EXCEPT ![c].index_lock.writer = t]
                /\ Goto(t, "insert_add", op[t])
                /\ UNCHANGED hist
    /\ UNCHANGED nops

\* an insert that returns with the write guard of the index still held
keep_write_guard(t, c, r) ==
    /\ collections' = [collections EXCEPT ![c].index = r.index]
    /\ Return(t, Ok(t, op[t], TRUE))

\* line 273 and the return, r being what add_vector did: a panic under the
\* write guard poisons the lock and ends the thread
InsertAdded(t, c, r) ==
    IF r.panicked
    THEN /\ collections' = [collections EXCEPT
                               ![c].index = r.index,
                               ![c].index_lock.poisoned = TRUE,
                               ![c].index_lock.writer = None]
         /\ Panic(t, op[t])
    ELSE /\ collections' = [collections EXCEPT ![c].index = r.index,
                                               ![c].index_lock.writer = None]
         /\ Return(t, Ok(t, op[t], TRUE))

\* line 273: index.add_vector under the write guard
InsertAddVector(t) ==
    /\ pc[t] = "insert_add"
    /\ \E level \in Levels :
           InsertAdded(t, op[t].coll,
               add_vector(collections[op[t].coll].index,
                          collections[op[t].coll].config,
                          op[t].id, op[t].vector, level))
    /\ UNCHANGED <<nops, hist>>

(***************************************************************************)
(* Collection::batch_insert                                                *)
(***************************************************************************)
\* lines 284-288: the items of the request are handed to the pool
BatchInsert(t, c, vectors) ==
    /\ Goto(t, "batch_collect",
            [NoOp EXCEPT !.kind = "batch_insert", !.coll = c, !.items = vectors,
                         !.done = [i \in DOMAIN vectors |->
                                      ItemResult("pending", vectors[i].id, "")]])
    /\ hist' = [hist EXCEPT !.before = DOMAIN collections[c].storage]
    /\ UNCHANGED collections

\* lines 289-299, the closure on item i of the batch of t, run by worker w:
\* v is what validate_vector_document said at line 290
batch_item(w, t, i, doc, v) ==
    IF v # "Ok"
    THEN /\ op' = [op EXCEPT ![t].done[i] = ItemResult("Err", doc.id, v)]
         /\ ret' = NoRet
         /\ UNCHANGED <<pc, collections, hist>>
    ELSE insert_vector(w, op[t].coll, doc.id,
             [NoOp EXCEPT !.kind = "insert", !.coll = op[t].coll,
                          !.id = doc.id, !.vector = doc.vector,
                          !.metadata = doc.metadata,
                          !.batch = t, !.item = i],
             validate_vector_document(doc,
                 collections[op[t].coll].config.dimension))

BatchItem(w) ==
    /\ Idle(w)
    /\ \E t \in Threads :
           /\ pc[t] = "batch_collect"
           /\ \E i \in DOMAIN op[t].items :
                  /\ op[t].done[i].state = "pending"
                  /\ batch_item(w, t, i, op[t].items[i],
                         validate_vector_document(op[t].items[i],
                             collections[op[t].coll].config.dimension))
    /\ UNCHANGED nops

\* the items of done that came to state, in the order of the request
RECURSIVE items_in(_, _)
items_in(done, state) ==
    IF done = <<>> THEN <<>>
    ELSE (IF Head(done).state = state
          THEN <<<<Head(done).id, Head(done).error>>>> ELSE <<>>)
         \o items_in(Tail(done), state)

\* lines 302-313
BatchInsertResponse(done) ==
    [inserted |-> Len(items_in(done, "Ok")),
     failed |-> items_in(done, "Err"),
     duration_ms |-> 0]

\* line 300 to the end: collect() waits for every item and hands a panic of
\* an item on to the caller
BatchReturn(t) ==
    /\ pc[t] = "batch_collect"
    /\ \A i \in DOMAIN op[t].done :
           op[t].done[i].state \in {"Ok", "Err", "panicked"}
    /\ IF \E i \in DOMAIN op[t].done : op[t].done[i].state = "panicked"
       THEN Panic(t, op[t])
       ELSE Return(t, Ok(t, op[t], BatchInsertResponse(op[t].done)))
    /\ UNCHANGED <<collections, nops, hist>>

(***************************************************************************)
(* Collection::delete_vector                                               *)
(***************************************************************************)
\* line 351: self.storage.remove(id)
DeleteVector(t, c, id) ==
    LET call == [NoOp EXCEPT !.kind = "delete", !.coll = c, !.id = id]
        r == remove(collections[c].storage, id)
    IN  IF collections[c].storage_poisoned
        THEN /\ Return(t, Err(t, call, LockError))
             /\ UNCHANGED <<collections, hist>>
        ELSE /\ collections' = [collections EXCEPT ![c].storage = r.data]
             /\ IF r.removed
                THEN /\ Goto(t, "delete_index", call)
                     /\ hist' = [hist EXCEPT !.plain = FALSE, !.stale = @ \ {t}]
                ELSE /\ Return(t, Ok(t, call, FALSE))
                     /\ hist' = [hist EXCEPT !.dels[id].f = @ + 1,
                                             !.plain = FALSE]

\* line 354: self.index.write()
DeleteIndexLock(t) ==
    /\ pc[t] = "delete_index"
    /\ LET c == op[t].coll
           lock == collections[c].index_lock
       IN  IF lock.poisoned
           THEN /\ Return(t, Err(t, op[t], LockError))
                /\ hist' = IF t \in hist.stale THEN hist
                            ELSE [hist EXCEPT !.dels[op[t].id].e = @ + 1]
                /\ UNCHANGED collections
           ELSE /\ write_free(lock)
                /\ collections' = [collections EXCEPT ![c].index_lock.writer = t]
                /\ Goto(t, "delete_remove", op[t])
                /\ UNCHANGED hist
    /\ UNCHANGED nops

\* lines 355-358: index.remove_vector under the write guard, Ok(true)
DeleteRemoveVector(t) ==
    /\ pc[t] = "delete_remove"
    /\ LET c == op[t].coll
           id == op[t].id
       IN  \E new_entry \in NextKeys(collections[c].index, id) :
               /\ collections' =
                      [collections EXCEPT
                          ![c].index = remove_vector(@, id, new_entry).index,
                          ![c].index_lock.writer = None]
               /\ Return(t, Ok(t, op[t], TRUE))
               /\ hist' = IF t \in hist.stale THEN hist
                           ELSE [hist EXCEPT !.deleted = @ \cup {id},
                                             !.dels[id].t = @ + 1]
    /\ UNCHANGED nops

(***************************************************************************)
(* Collection::search_vectors                                              *)
(***************************************************************************)
\* lines 317-324: validation, self.index.read(), the index search.  The
\* read guard is held until the function returns.
SearchVectors(t, c, query, limit, ef, filter) ==
    LET coll == collections[c]
        v == validate_search_params(query, coll.config.dimension, limit, ef)
        call == [NoOp EXCEPT !.kind = "search", !.coll = c, !.vector = query,
                             !.limit = limit, !.ef = ef, !.filter = filter]
    IN  /\ IF v # "Ok"
           THEN /\ Return(t, Err(t, call, v))
                /\ UNCHANGED collections
           ELSE IF coll.index_lock.poisoned
           THEN /\ Return(t, Err(t, call, LockError))
                /\ UNCHANGED collections
           ELSE /\ read_free(coll.index_lock)
                /\ collections' =
                       [collections EXCEPT ![c].index_lock.readers = @ \cup {t}]
                /\ Goto(t, "search_join",
                        [call EXCEPT !.nearest = search(coll.index, coll.config,
                                                        query, limit, ef)])
        /\ UNCHANGED hist

\* a join that lets every stored document pass
join_unfiltered(data, filter, id, score) ==
    IF IsSome(get(data, id))
    THEN << <<id, score, Unwrap(get(data, id)).metadata>> >>
    ELSE <<>>

\* lines 329-336: what the pair (id, score) adds to the results
join_one(data, filter, id, score) ==
    LET document == get(data, id)
    IN  IF /\ IsSome(document)
           /\ IsSome(filter) => evaluate_filter(Unwrap(document), Unwrap(filter))
        THEN << <<id, score, Unwrap(document).metadata>> >>
        ELSE <<>>

\* lines 328-337: the whole join loop against one state of the store
RECURSIVE join_all(_, _, _)
join_all(data, filter, nearest_ids) ==
    IF nearest_ids = <<>> THEN <<>>
    ELSE join_one(data, filter, Head(nearest_ids)[1], Head(nearest_ids)[2])
         \o join_all(data, filter, Tail(nearest_ids))

\* lines 328-337: one turn of the join loop
SearchJoin(t) ==
    /\ pc[t] = "search_join"
    /\ op[t].nearest # <<>>
    /\ Goto(t, "search_join",
            [op[t] EXCEPT
                !.nearest = Tail(@),
                !.results =
                    IF collections[op[t].coll].storage_poisoned
                    THEN @           \* line 329: get is Err, the if let fails
                    ELSE @ \o join_one(collections[op[t].coll].storage,
                                       op[t].filter,
                                       Head(op[t].nearest)[1],
                                       Head(op[t].nearest)[2])])
    /\ UNCHANGED <<collections, nops, hist>>

\* line 339: Ok(results); the read guard is dropped
SearchReturn(t) ==
    /\ pc[t] = "search_join"
    /\ op[t].nearest = <<>>
    /\ collections' = [collections EXCEPT
                          ![op[t].coll].index_lock.readers = @ \ {t}]
    /\ Return(t, Ok(t, op[t], op[t].results))
    /\ UNCHANGED <<nops, hist>>

(***************************************************************************)
(* Collection::get_vector, Collection::update_metadata                     *)
(***************************************************************************)
GetVector(t, c, id) ==
    /\ IF collections[c].storage_poisoned
       THEN Return(t, Err(t, [NoOp EXCEPT !.kind = "get_vector", !.coll = c,
                                          !.id = id], LockError))
       ELSE Return(t, Ok(t, [NoOp EXCEPT !.kind = "get_vector", !.coll = c,
                                         !.id = id],
                         get(collections[c].storage, id)))
    /\ UNCHANGED <<collections, hist>>

UpdateMetadata(t, c, id, metadata) ==
    LET call == [NoOp EXCEPT !.kind = "update_metadata", !.coll = c,
                             !.id = id, !.metadata = metadata]
        r == update_metadata(collections[c].storage, id, metadata)
    IN  /\ IF collections[c].storage_poisoned
           THEN /\ Return(t, Err(t, call, LockError))
                /\ UNCHANGED collections
           ELSE /\ collections' = [collections EXCEPT ![c].storage = r.data]
                /\ Return(t, Ok(t, call, r.updated))
        /\ UNCHANGED hist

(***************************************************************************)
(* The collection API, called by concurrent threads                        *)
(***************************************************************************)
StartInsert(t) ==
    \E d \in Documents : InsertVector(t, "docs", d[1], d[2], d[3])

StartDelete(t) == \E id \in IDs : DeleteVector(t, "docs", id)

StartSearch(t) ==
    \E q \in Queries : SearchVectors(t, "docs", q[1], q[2], q[3], q[4])

StartLargeSearch(t) ==
    \E q \in LargeQueries : SearchVectors(t, "docs", q[1], q[2], q[3], q[4])

StartGet(t) == \E id \in IDs : GetVector(t, "docs", id)

\* the metadata update_metadata is called with
Updates == {Article, NoneOpt}

StartUpdate(t) ==
    \E id \in IDs, metadata \in Updates : UpdateMetadata(t, "docs", id, metadata)

Next ==
    \E t \in Threads :
        \/ CanStart(t, MaxOps) /\ StartInsert(t)
        \/ CanStart(t, MaxOps) /\ StartDelete(t)
        \/ CanStart(t, MaxOps) /\ StartSearch(t)
        \/ CanStart(t, MaxOps) /\ StartLargeSearch(t)
        \/ CanStart(t, MaxOps) /\ StartGet(t)
        \/ CanStart(t, MaxOps) /\ StartUpdate(t)
        \/ InsertIndexLock(t)
        \/ InsertAddVector(t)
        \/ DeleteIndexLock(t)
        \/ DeleteRemoveVector(t)
        \/ SearchJoin(t)
        \/ SearchReturn(t)

Spec == Init /\ [][Next]_vars

\* the requests of the batch inserts: a wrong length first, one ID twice,
\* two new documents, an empty metadata key first
Requests ==
    {<<VectorDocument("c", ShortVector, NoneOpt),
       VectorDocument("b", Pad(<<3, 4>>), Article)>>,
     <<VectorDocument("a", Origin, NoneOpt),
       VectorDocument("a", Pad(<<3, 0>>), Article)>>,
     <<VectorDocument("b", Pad(<<3, 4>>), Article),
       VectorDocument("c", Pad(<<3, 0>>), NoneOpt)>>,
     <<VectorDocument("b", Origin, Some(<<<<"", "x">>>>)),
       VectorDocument("a", Origin, NoneOpt)>>}

StartBatch(t) == \E r \in Requests : BatchInsert(t, "docs", r)

\* metadata that validate_vector_document does not accept in a document: an
\* empty key, more than MaxMetadataEntries entries
InvalidUpdates ==
    {Some(<<<<"", "x">>>>),
     Some([i \in 1..(MaxMetadataEntries + 1) |-> <<"type", "article">>])}

StartInvalidUpdate(t) ==
    \E id \in IDs, metadata \in InvalidUpdates :
        UpdateMetadata(t, "docs", id, metadata)

CanStartBatch(t) ==
    /\ \A u \in Threads : ~Running(u)
    /\ CanStart(t, MaxBatchOps)

\* batch inserts, inserts, deletes and metadata updates called one at a
\* time, the items of a batch in parallel on the pool
BatchNext ==
    \/ \E t \in Threads :
           \/ CanStartBatch(t) /\ StartBatch(t)
           \/ CanStartBatch(t) /\ StartInsert(t)
           \/ CanStartBatch(t) /\ StartDelete(t)
           \/ CanStartBatch(t) /\ StartUpdate(t)
           \/ CanStartBatch(t) /\ StartInvalidUpdate(t)
           \/ BatchReturn(t)
           \/ DeleteIndexLock(t)
           \/ DeleteRemoveVector(t)
    \/ \E w \in Workers : BatchItem(w)
    \/ \E t \in Tasks :
           \/ InsertIndexLock(t)
           \/ InsertAddVector(t)

SpecBatch == Init /\ [][BatchNext]_vars

\* MemoryStorage::store, lines 37-38, when HashMap::insert panics under the
\* write guard (capacity overflow, or a failed allocation where the
\* allocation error handler panics): the store's lock is poisoned, nothing
\* is written and the thread ends
StorePanic(t, c, id, vector, metadata) ==
    /\ validate_vector_document(VectorDocument(id, vector, metadata),
           collections[c].config.dimension) = "Ok"
    /\ ~collections[c].storage_poisoned
    /\ collections' = [collections EXCEPT ![c].storage_poisoned = TRUE]
    /\ Panic(t, [NoOp EXCEPT !.kind = "insert", !.coll = c, !.id = id,
                             !.vector = vector, !.metadata = metadata])
    /\ UNCHANGED hist

StartStorePanic(t) ==
    \E d \in Documents : StorePanic(t, "docs", d[1], d[2], d[3])

\* inserts, searches and reads where a store write may panic
FaultNext ==
    \E t \in Threads :
        \/ CanStart(t, MaxFaultOps) /\ StartInsert(t)
        \/ CanStart(t, MaxFaultOps) /\ StartStorePanic(t)
        \/ CanStart(t, MaxFaultOps) /\ StartSearch(t)
        \/ CanStart(t, MaxFaultOps) /\ StartGet(t)
        \/ InsertIndexLock(t)
        \/ InsertAddVector(t)
        \/ SearchJoin(t)
        \/ SearchReturn(t)

SpecFault == Init /\ [][FaultNext]_vars

\* operations one at a time: none starts while another runs
NoneRunning == \A t \in Threads : ~Running(t)

CanStartSeq(t) == NoneRunning /\ CanStart(t, MaxSeqOps)

SeqNext ==
    \E t \in Threads :
        \/ CanStartSeq(t) /\ StartInsert(t)
        \/ CanStartSeq(t) /\ StartDelete(t)
        \/ CanStartSeq(t) /\ StartSearch(t)
        \/ CanStartSeq(t) /\ StartGet(t)
        \/ CanStartSeq(t) /\ StartUpdate(t)
        \/ InsertIndexLock(t)
        \/ InsertAddVector(t)
        \/ DeleteIndexLock(t)
        \/ DeleteRemoveVector(t)
        \/ SearchJoin(t)
        \/ SearchReturn(t)

SpecSeq == Init /\ [][SeqNext]_vars

(***************************************************************************)
(* The layer search and the neighbor selection of the index, applied to    *)
(* the graphs that inserts and deletes build                               *)
(***************************************************************************)
\* the IDs of the nodes of the index of collection c
IndexIds(c) == DOMAIN collections[c].index.nodes

MaxLayerOps == 3

\* the lists of at most n elements of S
Lists(S, n) == UNION {[1..k -> S] : k \in 0..n}

\* the vectors the layer search and the selection are called for
LayerQueries == {Origin, Pad(<<3, 4>>)}

\* HNSWIndex::search_layer on the index of collection c; the call returns
\* with its arguments and the state in which its loop ended
SearchLayer(t, c, query, entry_points, num_closest, level) ==
    /\ ret' = Ok(t, [NoOp EXCEPT !.kind = "search_layer", !.coll = c],
                [query |-> query, entry_points |-> entry_points,
                 num_closest |-> num_closest, level |-> level,
                 s |-> sl_run(collections[c].index.nodes,
                              collections[c].config.metric, query,
                              entry_points, num_closest, level)])
    /\ UNCHANGED <<pc, op, collections, nops, hist>>

StartSearchLayer(t) ==
    \E query \in LayerQueries, num_closest \in 1..MaxK, level \in Levels :
        \E entry_points \in Lists(IndexIds("docs"), num_closest) :
            SearchLayer(t, "docs", query, entry_points, num_closest, level)

\* HNSWIndex::select_neighbors_heuristic on the index of collection c; the
\* call returns with its arguments and the list it selected
SelectNeighbors(t, c, vector, candidates, m) ==
    /\ ret' = Ok(t, [NoOp EXCEPT !.kind = "select_neighbors", !.coll = c],
                [vector |-> vector, candidates |-> candidates, m |-> m,
                 selected |-> select_neighbors_heuristic(
                                  collections[c].index.nodes,
                                  collections[c].config.metric, vector,
                                  candidates, m)])
    /\ UNCHANGED <<pc, op, collections, nops, hist>>

\* the candidate lists of a selection: nodes of the index, none twice
CandidateLists(c) ==
    {l \in Lists(IndexIds(c), Cardinality(IDs)) :
        \A i, j \in DOMAIN l : l[i] = l[j] => i = j}

StartSelectNeighbors(t) ==
    \E vector \in LayerQueries, m \in 1..M :
        \E candidates \in CandidateLists("docs") :
            SelectNeighbors(t, "docs", vector, candidates, m)

\* an operation of a thread has returned and nothing has happened since
Returned == NoneRunning /\ ret.thread # None

\* the operations run one at a time; the two functions are applied to the
\* index as an operation has left it
LayerNext ==
    \/ Returned /\ StartSearchLayer(None)
    \/ Returned /\ StartSelectNeighbors(None)
    \/ \E t \in Threads :
        \/ NoneRunning /\ CanStart(t, MaxLayerOps) /\ StartInsert(t)
        \/ NoneRunning /\ CanStart(t, MaxLayerOps) /\ StartDelete(t)
        \/ InsertIndexLock(t)
        \/ InsertAddVector(t)
        \/ DeleteIndexLock(t)
        \/ DeleteRemoveVector(t)

SpecLayer == Init /\ [][LayerNext]_vars

(***************************************************************************)
(* utils/filter.rs: evaluate_filter applied to a document and a filter     *)
(***************************************************************************)
\* the conditions of a filter at most
MaxConditions == 2

\* values as sequences of characters
FilterValues == {<<"a", "b">>, <<"b">>, <<"a">>}

\* the metadata of the documents: none, empty, one pair, the key in two
\* pairs, the key behind another key
FilterMetadata ==
    {NoneOpt, Some(<<>>)}
    \cup {Some(<<<<"k", v>>>>) : v \in FilterValues}
    \cup {Some(<<<<"k", v[1]>>, <<"k", v[2]>>>>) :
              v \in {<<<<"a", "b">>, <<"b">>>>, <<<<"b">>, <<"a", "b">>>>}}
    \cup {Some(<<<<"j", <<"a">>>>, <<"k", <<"a", "b">>>>>>)}

FilterOperations ==
    {"Equals", "NotEquals", "Contains", "StartsWith", "EndsWith"}

\* conditions on a key the documents may have and on one they never have
FilterConditions ==
    [key : {"k", "x"}, value : {<<"a", "b">>, <<"b">>},
     operation : FilterOperations]

Filters ==
    [conditions : Lists(FilterConditions, MaxConditions),
     operator : {"And", "Or"}]

\* a thread is about to evaluate a filter on a document
InitFilter ==
    /\ collections = [c \in {"docs"} |-> CollectionNew(DocsConfig)]
    /\ \E metadata \in FilterMetadata, filter \in Filters :
           /\ pc = [t \in Tasks |->
                       IF t = "t1" THEN "evaluate_filter" ELSE "idle"]
           /\ op = [t \in Tasks |->
                       IF t = "t1"
                       THEN [NoOp EXCEPT !.kind = "evaluate_filter",
                                         !.id = "a", !.vector = Origin,
                                         !.metadata = metadata,
                                         !.filter = Some(filter)]
                       ELSE NoOp]
    /\ ret = NoRet
    /\ nops = 0
    /\ hist = HistInit

\* evaluate_filter on the document and the filter of the call
EvaluateFilter(t) ==
    /\ pc[t] = "evaluate_filter"
    /\ Return(t, Ok(t, op[t],
                  evaluate_filter(
                      VectorDocument(op[t].id, op[t].vector, op[t].metadata),
                      Unwrap(op[t].filter))))
    /\ UNCHANGED <<collections, nops, hist>>

FilterNext == \E t \in Threads : EvaluateFilter(t)

SpecFilter == InitFilter /\ [][FilterNext]_vars

(***************************************************************************)
(* Searches that carry a filter without conditions                         *)
(***************************************************************************)
MaxFilterOps == 3

\* a filter without conditions under either operator
EmptyFilters == [conditions : {<<>>}, operator : {"And", "Or"}]

\* searches without a filter and with a filter without conditions
EmptyFilterQueries ==
    {<<q, k, NoneOpt, f>> :
        q \in LayerQueries, k \in 1..MaxK,
        f \in {NoneOpt} \cup {Some(e) : e \in EmptyFilters}}

StartEmptyFilterSearch(t) ==
    \E q \in EmptyFilterQueries :
        SearchVectors(t, "docs", q[1], q[2], q[3], q[4])

\* operations one at a time: inserts, deletes, metadata updates and the
\* searches above
EmptyFilterNext ==
    \E t \in Threads :
        \/ NoneRunning /\ CanStart(t, MaxFilterOps) /\ StartInsert(t)
        \/ NoneRunning /\ CanStart(t, MaxFilterOps) /\ StartDelete(t)
        \/ NoneRunning /\ CanStart(t, MaxFilterOps) /\ StartUpdate(t)
        \/ NoneRunning /\ CanStart(t, MaxFilterOps) /\ StartEmptyFilterSearch(t)
        \/ InsertIndexLock(t)
        \/ InsertAddVector(t)
        \/ DeleteIndexLock(t)
        \/ DeleteRemoveVector(t)
        \/ SearchJoin(t)
        \/ SearchReturn(t)

SpecEmptyFilter == Init /\ [][EmptyFilterNext]_vars

\* concurrent inserts, searches and reads, no delete
NoDeleteNext ==
    \E t \in Threads :
        \/ CanStart(t, MaxOps) /\ StartInsert(t)
        \/ CanStart(t, MaxOps) /\ StartSearch(t)
        \/ CanStart(t, MaxOps) /\ StartGet(t)
        \/ CanStart(t, MaxOps) /\ StartUpdate(t)
        \/ InsertIndexLock(t)
        \/ InsertAddVector(t)
        \/ SearchJoin(t)
        \/ SearchReturn(t)

SpecNoDelete == Init /\ [][NoDeleteNext]_vars

(***************************************************************************)
(* Database: the collections map behind its RwLock.  An operation on a     *)
(* collection holds the read guard until the collection's method returns   *)
(* or unwinds; create_collection and drop_collection take the write guard, *)
(* which no reader may hold.                                               *)
(***************************************************************************)
Names == {"docs", "other"}

\* SolarisConfig, as far as create_collection reads it
DbConfig ==
    [max_collections |-> MaxCollections, default_metric |-> "Cosine",
     default_ef_construction |-> EfConstruction, default_m |-> M]

\* Database::new
InitDb ==
    /\ collections = <<>>
    /\ pc = [t \in Tasks |-> "idle"]
    /\ op = [t \in Tasks |-> NoOp]
    /\ ret = NoRet
    /\ nops = 0
    /\ hist = HistInit

NotFound == "Collection not found"

\* the write guard of Database.collections can be taken
DbWritable == \A t \in Threads : ~Running(t)

\* a creation check that only looks for the name
admit_new_name(names, name) ==
    IF name \in names THEN "Collection already exists" ELSE "Ok"

\* create_collection, lines 61-67, on the keys of the map
admit(names, name) ==
    IF name \in names THEN "Collection already exists"
    ELSE IF Cardinality(names) >= DbConfig.max_collections
    THEN "Maximum number of collections reached"
    ELSE "Ok"

\* Database::create_collection; metric is an Option
CreateCollection(t, name, dimension, metric) ==
    LET config == [name |-> name, dimension |-> dimension,
                   metric |-> IF IsSome(metric) THEN Unwrap(metric)
                              ELSE DbConfig.default_metric,
                   ef_construction |-> DbConfig.default_ef_construction,
                   m |-> DbConfig.default_m]
        call == [NoOp EXCEPT !.kind = "create_collection", !.coll = name]
        v == validate_collection_config(config)
    IN  /\ IF v # "Ok"
           THEN /\ Return(t, Err(t, call, v))
                /\ UNCHANGED collections
           ELSE /\ DbWritable
                /\ IF admit(DOMAIN collections, name) # "Ok"
                   THEN /\ Return(t, Err(t, call,
                                         admit(DOMAIN collections, name)))
                        /\ UNCHANGED collections
                   ELSE /\ collections' =
                               MapInsert(collections, name, CollectionNew(config))
                        /\ Return(t, Ok(t, call, TRUE))
        /\ UNCHANGED hist

\* Database::drop_collection
DropCollection(t, name) ==
    /\ DbWritable
    /\ collections' = MapRemove(collections, name)
    /\ Return(t, Ok(t, [NoOp EXCEPT !.kind = "drop_collection", !.coll = name],
                    name \in DOMAIN collections))
    /\ UNCHANGED hist

\* Database::insert_vector
DbInsertVector(t, name, id, vector, metadata) ==
    IF name \in DOMAIN collections
    THEN InsertVector(t, name, id, vector, metadata)
    ELSE /\ Return(t, Err(t, [NoOp EXCEPT !.kind = "insert", !.coll = name,
                                          !.id = id, !.vector = vector,
                                          !.metadata = metadata], NotFound))
         /\ UNCHANGED <<collections, hist>>

\* Database::search_vectors: line 132 validates against dimension 0 before
\* the collection is looked up
DbSearchVectors(t, name, query, limit, ef, filter) ==
    LET call == [NoOp EXCEPT !.kind = "search", !.coll = name,
                             !.vector = query, !.limit = limit, !.ef = ef,
                             !.filter = filter]
        v == validate_search_params(query, 0, limit, ef)
    IN  IF v # "Ok"
        THEN /\ Return(t, Err(t, call, v))
             /\ UNCHANGED <<collections, hist>>
        ELSE IF name \notin DOMAIN collections
        THEN /\ Return(t, Err(t, call, NotFound))
             /\ UNCHANGED <<collections, hist>>
        ELSE SearchVectors(t, name, query, limit, ef, filter)

\* Database::get_vector
DbGetVector(t, name, id) ==
    IF name \in DOMAIN collections
    THEN GetVector(t, name, id)
    ELSE /\ Return(t, Err(t, [NoOp EXCEPT !.kind = "get_vector",
                                          !.coll = name, !.id = id], NotFound))
         /\ UNCHANGED <<collections, hist>>

\* Database::delete_vector
DbDeleteVector(t, name, id) ==
    IF name \in DOMAIN collections
    THEN DeleteVector(t, name, id)
    ELSE /\ Return(t, Err(t, [NoOp EXCEPT !.kind = "delete", !.coll = name,
                                          !.id = id], NotFound))
         /\ UNCHANGED <<collections, hist>>

\* Database::batch_insert; the response carries the elapsed time, which the
\* model leaves at 0
DbBatchInsert(t, name, vectors) ==
    IF name \in DOMAIN collections
    THEN BatchInsert(t, name, vectors)
    ELSE /\ Return(t, Err(t, [NoOp EXCEPT !.kind = "batch_insert",
                                          !.coll = name, !.items = vectors],
                           NotFound))
         /\ UNCHANGED <<collections, hist>>

\* Database::update_metadata
DbUpdateMetadata(t, name, id, metadata) ==
    IF name \in DOMAIN collections
    THEN UpdateMetadata(t, name, id, metadata)
    ELSE /\ Return(t, Err(t, [NoOp EXCEPT !.kind = "update_metadata",
                                          !.coll = name, !.id = id,
                                          !.metadata = metadata], NotFound))
         /\ UNCHANGED <<collections, hist>>

\* Database::count_vectors; Collection::count is not in the source, the
\* count it returns is taken to be MemoryStorage::count
DbCountVectors(t, name) ==
    /\ IF name \in DOMAIN collections
       THEN Return(t, Ok(t, [NoOp EXCEPT !.kind = "count", !.coll = name],
                         Cardinality(DOMAIN collections[name].storage)))
       ELSE Return(t, Err(t, [NoOp EXCEPT !.kind = "count", !.coll = name],
                          NotFound))
    /\ UNCHANGED <<collections, hist>>

\* the queries sent to the database: those of Queries and an empty vector
DbQueries == Queries \cup {<<<<>>, 1, NoneOpt, NoneOpt>>}

StartCreate(t) ==
    \E name \in Names \cup {""}, dimension \in {0, Dim},
       metric \in {NoneOpt, Some("Euclidean")} :
        CreateCollection(t, name, dimension, metric)

StartDrop(t) == \E name \in Names : DropCollection(t, name)

StartDbInsert(t) ==
    \E name \in Names, d \in Documents :
        DbInsertVector(t, name, d[1], d[2], d[3])

StartDbSearch(t) ==
    \E name \in Names, q \in DbQueries :
        DbSearchVectors(t, name, q[1], q[2], q[3], q[4])

StartDbGet(t) == \E name \in Names, id \in IDs : DbGetVector(t, name, id)

StartDbDelete(t) == \E name \in Names, id \in IDs : DbDeleteVector(t, name, id)

StartDbBatch(t) ==
    \E name \in Names, r \in Requests : DbBatchInsert(t, name, r)

StartDbUpdate(t) ==
    \E name \in Names, id \in IDs, metadata \in Updates :
        DbUpdateMetadata(t, name, id, metadata)

StartDbCount(t) == \E name \in Names : DbCountVectors(t, name)

\* the database API, called by concurrent threads.  No search gets as far
\* as the join loop: a query that passes line 132 is empty, and no
\* collection has dimension 0.
DbNext ==
    \/ \E t \in Threads :
           \/ CanStart(t, MaxDbOps) /\ StartCreate(t)
           \/ CanStart(t, MaxDbOps) /\ StartDrop(t)
           \/ CanStart(t, MaxDbOps) /\ StartDbInsert(t)
           \/ CanStart(t, MaxDbOps) /\ StartDbBatch(t)
           \/ CanStart(t, MaxDbOps) /\ StartDbSearch(t)
           \/ CanStart(t, MaxDbOps) /\ StartDbGet(t)
           \/ CanStart(t, MaxDbOps) /\ StartDbUpdate(t)
           \/ CanStart(t, MaxDbOps) /\ StartDbDelete(t)
           \/ CanStart(t, MaxDbOps) /\ StartDbCount(t)
           \/ BatchReturn(t)
           \/ DeleteIndexLock(t)
           \/ DeleteRemoveVector(t)
    \/ \E w \in Workers : BatchItem(w)
    \/ \E t \in Tasks :
           \/ InsertIndexLock(t)
           \/ InsertAddVector(t)

SpecDb == InitDb /\ [][DbNext]_vars

(***************************************************************************)
(* The operations under fair scheduling.  The database holds the          *)
(* collection docs; the calls go through the Database, and since           *)
(* Database::search_vectors never reaches Collection::search_vectors       *)
(* (line 132), the search of the collection is also called on its own.     *)
(***************************************************************************)
MaxLiveOps == 3

LiveDocuments ==
    {<<"a", Origin, NoneOpt>>, <<"b", Pad(<<3, 4>>), Article>>}

LiveRequest ==
    <<VectorDocument("a", Pad(<<3, 0>>), Article),
      VectorDocument("b", Pad(<<3, 4>>), Article)>>

\* the steps by which a started operation goes on, add_vector apart: taking
\* a lock that is free, the work under the lock, the items of a batch
LiveStep ==
    \/ \E t \in Threads : \/ BatchReturn(t)
                           \/ DeleteIndexLock(t)
                           \/ DeleteRemoveVector(t)
                           \/ SearchJoin(t)
                           \/ SearchReturn(t)
    \/ \E w \in Workers : BatchItem(w)
    \/ \E t \in Tasks : InsertIndexLock(t)

LiveNext ==
    \/ \E t \in Threads :
           /\ CanStart(t, MaxLiveOps)
           /\ \/ CreateCollection(t, "docs", Dim, Some("Euclidean"))
              \/ DropCollection(t, "docs")
              \/ \E d \in LiveDocuments :
                     DbInsertVector(t, "docs", d[1], d[2], d[3])
              \/ DbBatchInsert(t, "docs", LiveRequest)
              \/ DbDeleteVector(t, "docs", "a")
              \/ DbUpdateMetadata(t, "docs", "b", NoneOpt)
              \/ DbSearchVectors(t, "docs", Origin, MaxK, NoneOpt, NoneOpt)
              \/ /\ "docs" \in DOMAIN collections
                 /\ SearchVectors(t, "docs", Origin, MaxK, NoneOpt, NoneOpt)
    \/ LiveStep
    \/ \E t \in Tasks : InsertAddVector(t)

\* add_vector returns or panics: the step that takes t from insert_add.
\* InsertAddVector(t) has no guard but the position of t, so it is enabled
\* exactly where this is, and AddVectorReturnsIsAddVector says that the two
\* are the same steps of LiveNext.
AddVectorReturns(t) ==
    /\ pc[t] = "insert_add"
    /\ \E p \in {"idle", "panicked"} : pc' = [pc EXCEPT ![t] = p]

AddVectorReturnsIsAddVector ==
    [][\A t \in Tasks : AddVectorReturns(t) <=> InsertAddVector(t)]_vars

\* fair scheduling: while a started operation can take a step, one is taken,
\* and a thread inside add_vector comes out of it
Fairness ==
    /\ WF_vars(LiveStep)
    /\ WF_pc(\E t \in Tasks : AddVectorReturns(t))

SpecLive == Init /\ [][LiveNext]_vars /\ Fairness

(***************************************************************************)
(* core/database.rs: the Collection that main.rs builds.  Its methods take *)
(* &mut self or &self on a collection no lock guards, so each call runs    *)
(* alone and is one step; a panic ends the caller, and no call follows it. *)
(***************************************************************************)
NoPanic == \A t \in Threads : pc[t] # "panicked"

\* core Collection::insert_vector, lines 101-106, r being what add_vector did
CoreInserted(t, c, call, r) ==
    /\ collections' =
           [collections EXCEPT
               ![c].storage = store(@, call.id, call.vector, call.metadata, Now),
               ![c].index = r.index]
    /\ IF r.panicked
       THEN Goto(t, "panicked", call)
       ELSE Return(t, Ok(t, call, TRUE))

\* core Collection::insert_vector
CoreInsertVector(t, c, id, vector, metadata) ==
    LET call == [NoOp EXCEPT !.kind = "insert", !.coll = c, !.id = id,
                             !.vector = vector, !.metadata = metadata]
    IN  /\ NoPanic
        /\ IF Len(vector) # collections[c].config.dimension
           THEN /\ Return(t, Err(t, call, "DimensionMismatch"))
                /\ UNCHANGED collections
           ELSE \E level \in Levels :
                    CoreInserted(t, c, call,
                        add_vector(collections[c].index, collections[c].config,
                                   id, vector, level))
        /\ UNCHANGED hist

\* core Collection::search_vectors, lines 126-130: each (id, score) with the
\* metadata the store has for the ID
RECURSIVE core_join(_, _)
core_join(data, nearest_ids) ==
    IF nearest_ids = <<>> THEN <<>>
    ELSE << <<Head(nearest_ids)[1], Head(nearest_ids)[2],
              get_metadata(data, Head(nearest_ids)[1])>> >>
         \o core_join(data, Tail(nearest_ids))

\* core Collection::search_vectors
CoreSearchVectors(t, c, query_vector, limit) ==
    LET call == [NoOp EXCEPT !.kind = "search", !.coll = c,
                             !.vector = query_vector, !.limit = limit]
    IN  /\ NoPanic
        /\ IF Len(query_vector) # collections[c].config.dimension
           THEN Return(t, Err(t, call, "DimensionMismatch"))
           ELSE Return(t, Ok(t, call,
                    core_join(collections[c].storage,
                        search(collections[c].index, collections[c].config,
                               query_vector, limit, NoneOpt))))
        /\ UNCHANGED <<collections, hist>>

StartCoreInsert(t) ==
    \E d \in Documents \cup BadDocuments :
        CoreInsertVector(t, "docs", d[1], d[2], d[3])

StartCoreSearch(t) ==
    \E q \in Queries : CoreSearchVectors(t, "docs", q[1], q[2])

CoreNext ==
    \E t \in Threads :
        \/ CanStart(t, MaxCoreOps) /\ StartCoreInsert(t)
        \/ CanStart(t, MaxCoreOps) /\ StartCoreSearch(t)

SpecCore == Init /\ [][CoreNext]_vars

(***************************************************************************)
(* Properties                                                              *)
(***************************************************************************)
StoreIds(c) == DOMAIN collections[c].storage

AllIdle == \A t \in Threads : pc[t] = "idle"
OthersIdle(t) == \A u \in Threads \ {t} : pc[u] = "idle"

\* the distance from the query to the vector the store holds for id
StoredDistance(c, query, id) ==
    calculate_distance(query, collections[c].storage[id].vector,
                       collections[c].config.metric)

\* the stored IDs that pairs, a list of results, does not name
Unnamed(c, pairs) == StoreIds(c) \ {pairs[i][1] : i \in 1..Len(pairs)}

\* ascending order of the distances of a list of results
Ascending(pairs) ==
    \A i, j \in 1..Len(pairs) : i < j => pairs[i][2] <= pairs[j][2]

\* C1: once every concurrent insert and delete on the collection has run to
\* completion, the IDs in the store are the IDs in the index.
C1_QuiescentAgreement == AllIdle => StoreIds("docs") = IndexIds("docs")

\* C2: in a collection built only by inserts of distinct IDs and holding at
\* most m vectors, a search without filter returns the min(k, count) stored
\* IDs closest to the query, each with its distance, in ascending order.
C2_SearchReturnsClosest ==
    (/\ ret.op = "search" /\ ret.status = "Ok"
     /\ hist.plain
     /\ ~IsSome(ret.call.filter)
     /\ Cardinality(StoreIds("docs")) <= M)
    => LET results == Unwrap(ret.value)
           query == ret.call.vector
       IN  /\ Len(results) = Min(ret.call.limit, Cardinality(StoreIds("docs")))
           /\ \A i \in 1..Len(results) :
                  /\ results[i][1] \in StoreIds("docs")
                  /\ results[i][2] = StoredDistance("docs", query, results[i][1])
           /\ \A i, j \in 1..Len(results) :
                  i < j => results[i][1] # results[j][1]
           /\ Ascending(results)
           /\ \A id \in Unnamed("docs", results) :
                  \A i \in 1..Len(results) :
                      results[i][2] <= StoredDistance("docs", query, id)

\* C3: a database search on an existing collection, with a query of the
\* collection's dimension, 1 <= k <= 10000 and ef absent or k <= ef <= 10000,
\* returns results, not an error.
C3_DbSearchPassesValidation ==
    (/\ ret.op = "search"
     /\ ret.call.coll \in DOMAIN collections
     /\ Len(ret.call.vector) = collections[ret.call.coll].config.dimension
     /\ \A i \in 1..Len(ret.call.vector) : is_finite(ret.call.vector[i])
     /\ 1 <= ret.call.limit /\ ret.call.limit <= MaxLimit
     /\ IsSome(ret.call.ef) =>
            (ret.call.limit <= Unwrap(ret.call.ef) /\ Unwrap(ret.call.ef) <= MaxEf))
    => ret.status = "Ok"

\* C4: no insert panics, whatever the state of the index.
C4_InsertNeverPanics == \A t \in Threads : pc[t] # "panicked"

\* C5: between two operations run one at a time, the IDs in the store are
\* the IDs in the index.
C5_AgreementBetweenOperations ==
    NoneRunning => StoreIds("docs") = IndexIds("docs")

\* C6: once an insert has returned an error after its store write, no
\* get_vector finds a document whose ID is not in the index.
C6_NoStoreOnlyIdObserved ==
    (/\ hist.failed_insert
     /\ ret.op = "get_vector" /\ ret.status = "Ok"
     /\ IsSome(Unwrap(ret.value)))
    => ret.call.id \in IndexIds("docs")

\* C7: with concurrent inserts and searches and no delete, every ID in the
\* index is in the store at every moment, and every ID a search obtained
\* from the index and has yet to join is in the store.
C7_IndexedIdsAreStored ==
    /\ IndexIds("docs") \subseteq StoreIds("docs")
    /\ \A t \in Threads :
           pc[t] = "search_join" =>
               \A i \in 1..Len(op[t].nearest) :
                   op[t].nearest[i][1] \in StoreIds("docs")

\* C7, its case: a search holds IDs it obtained from the index, one of them
\* the ID of an insert another thread has yet to bring to the index.
C7_SearchDuringInsert ==
    \E t, u \in Threads :
        /\ pc[t] = "search_join"
        /\ pc[u] \in {"insert_index", "insert_add"}
        /\ \E i \in 1..Len(op[t].nearest) : op[t].nearest[i][1] = op[u].id

\* C8: every search that returns, filtered or not, returns at most k
\* results, in ascending order of their distances, each distance being that
\* from the query to the vector the index holds for the ID.
C8_AtMostKAscending ==
    (ret.op = "search" /\ ret.status = "Ok")
    => LET results == Unwrap(ret.value)
           index == collections["docs"].index
       IN  /\ Len(results) <= ret.call.limit
           /\ Ascending(results)
           /\ \A i \in 1..Len(results) :
                  /\ results[i][1] \in DOMAIN index.nodes
                  /\ results[i][2] =
                         calculate_distance(ret.call.vector,
                             index.nodes[results[i][1]].vector,
                             collections["docs"].config.metric)

\* C8, its case: a search with k = 2 returns two results at two different
\* distances.
C8_TwoResultsReturned ==
    /\ ret.op = "search" /\ ret.status = "Ok"
    /\ ret.call.limit = 2
    /\ Len(Unwrap(ret.value)) = 2
    /\ Unwrap(ret.value)[1][2] < Unwrap(ret.value)[2][2]

\* C9: once delete(id) has returned true and no insert of id has come
\* since, a search that starts while nothing else runs returns no result
\* for id, and with k = 1, no filter and a non-empty store, exactly one
\* result.
C9_DeletedIdNotReturned ==
    \A t \in Threads :
        (/\ pc[t] = "search_join"
         /\ OthersIdle(t)
         /\ op[t].results = <<>>
         /\ op[t].nearest = search(collections["docs"].index,
                                   collections["docs"].config,
                                   op[t].vector, op[t].limit, op[t].ef)
         /\ hist.deleted # {})
        => LET results == join_all(collections["docs"].storage, op[t].filter,
                                   op[t].nearest)
           IN  /\ \A i \in 1..Len(results) : results[i][1] \notin hist.deleted
               /\ (/\ op[t].limit = 1
                   /\ ~IsSome(op[t].filter)
                   /\ StoreIds("docs") # {})
                  => Len(results) = 1

\* C10: of the deletes of one ID that have returned since the ID was last
\* inserted, exactly one returned true and every other one returned false.
C10_OneDeleteReturnsTrue ==
    \A id \in IDs :
        (/\ hist.dels[id].ins
         /\ hist.dels[id].t + hist.dels[id].f + hist.dels[id].e >= 1
         /\ \A t \in Threads : ~(Running(t) /\ op[t].kind = "delete"
                                 /\ op[t].id = id))
        => hist.dels[id].t = 1 /\ hist.dels[id].e = 0

\* C11: an insert that repeats a stored ID leaves the set of stored IDs as
\* it was, and an insert that returns Ok leaves, under its ID, one document
\* and one node, both with the vector of that insert, the set of indexed IDs
\* being as it was when the ID was indexed before.
C11_ReinsertReplaces ==
    [][/\ \A t \in Threads :
              (/\ pc[t] = "idle" /\ pc'[t] = "insert_index"
               /\ op'[t].id \in StoreIds("docs"))
              => StoreIds("docs")' = StoreIds("docs")
       /\ (ret'.op = "insert" /\ ret'.status = "Ok")
          => /\ ret'.call.id \in StoreIds("docs")'
             /\ collections'["docs"].storage[ret'.call.id].vector
                    = ret'.call.vector
             /\ ret'.call.id \in IndexIds("docs")'
             /\ collections'["docs"].index.nodes[ret'.call.id].vector
                    = ret'.call.vector
             /\ ret'.call.id \in IndexIds("docs")
                    => IndexIds("docs")' = IndexIds("docs")]_vars

\* C11, its case: an insert of an ID that was stored and indexed, with a
\* vector other than the first one, has returned Ok.
C11_RepeatedInsertReturned ==
    /\ ret.op = "insert" /\ ret.status = "Ok"
    /\ ret.call.id \in hist.repeated
    /\ ret.call.vector # Origin
    /\ Cardinality(StoreIds("docs")) = 2

\* the error validate_vector_document has for the document of a call
CallError(call) ==
    validate_vector_document(VectorDocument(call.id, call.vector, call.metadata),
                             collections[call.coll].config.dimension)

\* C12: an insert of a document that validation rejects (wrong vector
\* length, empty or overlong ID, non-finite component, too many metadata
\* entries, empty metadata key) returns the matching error and leaves the
\* store and the index as they were.
C12_RejectedInsertChangesNothing ==
    [][(ret'.op = "insert" /\ CallError(ret'.call) # "Ok")
       => /\ ret'.status = "Err"
          /\ ret'.error = CallError(ret'.call)
          /\ collections' = collections]_vars

\* C13: after any sequence of inserts, batch inserts and deletes, every
\* vector in the store and every vector in a graph node has as many
\* components as the collection's dimension.
C13_DimensionUniform ==
    \A c \in DOMAIN collections :
        /\ \A id \in StoreIds(c) :
               Len(collections[c].storage[id].vector)
                   = collections[c].config.dimension
        /\ \A id \in IndexIds(c) :
               Len(collections[c].index.nodes[id].vector)
                   = collections[c].config.dimension

\* C13, its case: a batch insert whose first document had a vector of the
\* wrong length has returned, its other document is stored and indexed, and
\* a delete has run before.
C13_ShortVectorInBatch ==
    /\ ret.op = "batch_insert" /\ ret.status = "Ok"
    /\ Len(ret.call.items[1].vector) # collections["docs"].config.dimension
    /\ ret.value[1].inserted = 1
    /\ "b" \in StoreIds("docs") \cap IndexIds("docs")
    /\ hist.deleted # {}

\* the positions of a request whose document validation accepts
ValidItems(call) ==
    {i \in DOMAIN call.items :
        validate_vector_document(call.items[i],
            collections[call.coll].config.dimension) = "Ok"}

C15_ResultsSatisfyFilter ==
    (ret.op = "search" /\ ret.status = "Ok" /\ IsSome(ret.call.filter))
    => \A n \in DOMAIN ret.value[1] :
           evaluate_filter(VectorDocument(ret.value[1][n][1], <<>>,
                                          ret.value[1][n][3]),
                           Unwrap(ret.call.filter))

\* C15, its case: a filtered search has returned a document with the
\* metadata it matched, and an update_metadata that ran during the search
\* has taken that metadata from the stored document since.
C15_UpdateDuringSearch ==
    /\ ret.op = "search" /\ ret.status = "Ok" /\ IsSome(ret.call.filter)
    /\ \E n \in DOMAIN ret.value[1] :
           /\ ret.value[1][n][3] = Article
           /\ ret.value[1][n][1] \in StoreIds("docs")
           /\ collections["docs"].storage[ret.value[1][n][1]].metadata = NoneOpt

\* C16: in a collection built only by inserts of distinct IDs and holding
\* at most k vectors, a filtered search with limit k returns exactly the IDs
\* of the stored documents whose metadata satisfies the filter.
C16_FilteredSearchComplete ==
    (/\ ret.op = "search" /\ ret.status = "Ok"
     /\ hist.plain
     /\ IsSome(ret.call.filter)
     /\ Cardinality(StoreIds("docs")) <= ret.call.limit)
    => {ret.value[1][n][1] : n \in DOMAIN ret.value[1]}
           = {id \in StoreIds("docs") :
                 evaluate_filter(collections["docs"].storage[id],
                                 Unwrap(ret.call.filter))}

\* C17: after inserts and deletes in which no ID is inserted twice, every
\* ID in every neighbor list of every node is the ID of a node of the table;
\* so no list holds an ID that remove_vector has removed.
C17_NeighborsAreNodes ==
    hist.once
    => \A id \in IndexIds("docs") :
           \A level \in DOMAIN collections["docs"].index.nodes[id].connections :
               \A n \in DOMAIN collections["docs"].index.nodes[id].connections[level] :
                   collections["docs"].index.nodes[id].connections[level][n]
                       \in IndexIds("docs")

\* C18: after inserts of distinct IDs into an empty index, without deletes,
\* max_level is the highest level of a node and the entry point is a node
\* of that level.
C18_EntryPointAtMaxLevel ==
    (hist.once /\ IndexIds("docs") # {})
    => LET index == collections["docs"].index
       IN  /\ \A id \in DOMAIN index.nodes : index.nodes[id].level <= index.max_level
           /\ index.entry_point \in DOMAIN index.nodes
           /\ index.nodes[index.entry_point].level = index.max_level

\* C18, its case: three distinct IDs are in the index, every insert has
\* returned, the first node has level 0 and a later node of level 1 is the
\* entry point.
C18_LaterNodeIsEntryPoint ==
    /\ hist.once /\ AllIdle
    /\ Cardinality(IndexIds("docs")) = 3
    /\ collections["docs"].index.max_level = 1
    /\ \E id \in IndexIds("docs") : collections["docs"].index.nodes[id].level = 0
    /\ collections["docs"].index.nodes[collections["docs"].index.entry_point].level = 1

\* C19: while add_vector or remove_vector runs, the thread that runs it
\* holds the index lock for writing, no search holds it for reading and no
\* other thread is inside add_vector or remove_vector; the index changes
\* only in a step of such a thread.
C19_IndexMutationExclusive ==
    [][/\ \A t \in Threads :
              pc[t] \in {"insert_add", "delete_remove"}
              => /\ collections[op[t].coll].index_lock.writer = t
                 /\ collections[op[t].coll].index_lock.readers = {}
                 /\ \A u \in Threads \ {t} :
                        pc[u] \notin {"insert_add", "delete_remove", "search_join"}
       /\ collections'["docs"].index # collections["docs"].index
              => \E t \in Threads :
                     /\ pc[t] \in {"insert_add", "delete_remove"}
                     /\ pc'[t] # pc[t]
                     /\ \A u \in Threads \ {t} : pc[u] # "search_join"]_vars

\* C19, its case: remove_vector runs on an index of two nodes while an
\* insert waits for the index lock.
C19_InsertWaitsForRemove ==
    \E t, u \in Threads :
        /\ pc[t] = "delete_remove"
        /\ pc[u] = "insert_index"
        /\ Cardinality(IndexIds("docs")) = 2

\* C20: create_collection rejects a name that exists and every creation
\* once max_collections collections exist, and a rejection leaves the map
\* as it was; a creation succeeds only for a name that was not in the map,
\* and the map never holds more than max_collections collections.
C20_CreateRejectsAndBounds ==
    [][/\ ret'.op = "create_collection"
          => /\ ret'.call.coll \in DOMAIN collections => ret'.status = "Err"
             /\ Cardinality(DOMAIN collections) >= DbConfig.max_collections
                    => ret'.status = "Err"
             /\ ret'.status = "Err" => collections' = collections
             /\ ret'.status = "Ok"
                    => /\ ret'.call.coll \notin DOMAIN collections
                       /\ DOMAIN collections'
                              = DOMAIN collections \cup {ret'.call.coll}
       /\ Cardinality(DOMAIN collections') <= DbConfig.max_collections]_vars

\* C20, its case: the database holds its maximum of collections, one of
\* them with a document, and the creation of a name that is not in the map
\* has been rejected.
C20_CreateAtMaximumRejected ==
    /\ ret.op = "create_collection" /\ ret.status = "Err"
    /\ ret.error = "Maximum number of collections reached"
    /\ ret.call.coll \notin DOMAIN collections
    /\ Cardinality(DOMAIN collections) = DbConfig.max_collections
    /\ \E c \in DOMAIN collections : StoreIds(c) # {}

\* C21: an insert, batch insert, search, get, metadata update, delete or
\* count addressed to a collection name that is not in the map returns the
\* collection-not-found error and changes nothing.
C21_UnknownCollectionNotFound ==
    [][(/\ ret'.op \in {"insert", "batch_insert", "search", "get_vector",
                        "update_metadata", "delete", "count"}
        /\ ret'.call.coll \notin DOMAIN collections)
       => /\ ret'.status = "Err"
          /\ ret'.error = NotFound
          /\ collections' = collections]_vars

\* the parameters of a search call that the claim names as invalid
InvalidSearch(call) ==
    \/ call.limit = 0
    \/ call.limit > 10000
    \/ IsSome(call.ef) /\ Unwrap(call.ef) < call.limit
    \/ IsSome(call.ef) /\ Unwrap(call.ef) > 10000
    \/ Len(call.vector) # collections[call.coll].config.dimension
    \/ \E i \in DOMAIN call.vector : call.vector[i] \in {INFINITY, -INFINITY}

\* C22: a search returns an error exactly when k = 0, k > 10000, ef < k,
\* ef > 10000 or the query has the wrong length or a non-finite component;
\* the error comes in the first step of the call, before the index is
\* read, and changes nothing.
C22_SearchRejectedExactlyWhenInvalid ==
    [][ret'.op = "search"
       => /\ ret'.status = "Err" <=> InvalidSearch(ret'.call)
          /\ ret'.status = "Err"
                 => /\ collections' = collections
                    /\ pc[ret'.thread] = "idle"]_vars

\* C23: update_metadata(id, m) returns true exactly when id is in the
\* store; on true the document of id has metadata m and its vector and
\* timestamp as before, every other document and the index are as before;
\* on false nothing has changed.
C23_UpdateMetadataFrame ==
    [][ret'.op = "update_metadata"
       => LET id == ret'.call.id
              before == collections[ret'.call.coll]
              after == collections'[ret'.call.coll]
          IN  /\ ret'.status = "Ok"
              /\ ret'.value[1] = (id \in DOMAIN before.storage)
              /\ after.index = before.index
              /\ after.index_lock = before.index_lock
              /\ DOMAIN after.storage = DOMAIN before.storage
              /\ \A other \in DOMAIN before.storage \ {id} :
                     after.storage[other] = before.storage[other]
              /\ id \in DOMAIN before.storage
                     => /\ after.storage[id].metadata = ret'.call.metadata
                        /\ after.storage[id].vector = before.storage[id].vector
                        /\ after.storage[id].timestamp
                               = before.storage[id].timestamp
                        /\ after.storage[id].id = id]_vars

\* C23, its case: an update has returned true and taken the metadata from
\* a document that was stored a second before, next to another document
\* and its node in the index.
C23_MetadataReplaced ==
    /\ ret.op = "update_metadata" /\ ret.status = "Ok" /\ ret.value[1]
    /\ ret.call.metadata = NoneOpt
    /\ collections["docs"].storage[ret.call.id].vector # Origin
    /\ collections["docs"].storage[ret.call.id].timestamp < Now
    /\ Cardinality(StoreIds("docs")) = 2
    /\ IndexIds("docs") = StoreIds("docs")

\* C24: after inserts, batch inserts, metadata updates and deletes, the
\* metadata of every stored document, when present, has at most 100
\* entries and no empty key.
C24_StoredMetadataValid ==
    \A id \in StoreIds("docs") :
        IsSome(collections["docs"].storage[id].metadata)
        => /\ Len(Unwrap(collections["docs"].storage[id].metadata)) <= 100
           /\ \A n \in DOMAIN Unwrap(collections["docs"].storage[id].metadata) :
                  Unwrap(collections["docs"].storage[id].metadata)[n][1] # ""

\* C25: when the store lookup of a search's join fails, the search returns
\* that error: the step of the join in which storage.get fails ends the
\* search with an error.
C25_FailedLookupFailsSearch ==
    [][\A t \in Threads :
           (/\ pc[t] = "search_join"
            /\ op[t].nearest # <<>>
            /\ collections[op[t].coll].storage_poisoned
            /\ op'[t] # op[t])
           => /\ ret'.thread = t
              /\ ret'.status = "Err"]_vars

\* what add_vector selects for id at layer l, in an index that is not
\* empty: current_closest after the turn of the construction loop for l
Selected(index, config, id, vector, level, l) ==
    build_down_to(config, id, vector, Min(level, index.max_level), l,
        [nodes |-> index.nodes,
         current_closest |->
             greedy_descent(index.nodes, config.metric, vector,
                 <<index.entry_point>>, index.max_level, level + 1),
         panicked |-> FALSE]).current_closest

\* the elements of a sequence
Range(seq) == {seq[n] : n \in DOMAIN seq}

\* thread t has run add_vector in this step and returned
AddReturned(t) ==
    /\ pc[t] = "insert_add"
    /\ pc'[t] = "idle"

\* C26: when an insert of a new node X with level L into an index that is
\* not empty returns, the neighbor list of X at every layer from min(L,
\* previous max_level) down to 0 holds the nodes selected for X at that
\* layer.
C26_NewNodeHasSelectedNeighbors ==
    [][\A t \in Threads :
           (/\ AddReturned(t)
            /\ op[t].id \notin IndexIds("docs")
            /\ IndexIds("docs") # {})
           => LET index == collections["docs"].index
                  X == collections'["docs"].index.nodes[op[t].id]
              IN  \A l \in 0..Min(X.level, index.max_level) :
                      Range(X.connections[l + 1])
                          = Range(Selected(index, DocsConfig, op[t].id,
                                           op[t].vector, X.level, l))]_vars

\* C27: when an insert of node X returns, every node Y that was selected as
\* a neighbor of X at layer l and has level >= l holds X in its layer-l
\* neighbor list.
C27_SelectedNeighborsPointBack ==
    [][\A t \in Threads :
           (/\ AddReturned(t)
            /\ IndexIds("docs") # {})
           => LET index == collections["docs"].index
                  after == collections'["docs"].index.nodes
              IN  \A l \in 0..Min(after[op[t].id].level, index.max_level) :
                      \A Y \in Range(Selected(index, DocsConfig, op[t].id,
                                              op[t].vector,
                                              after[op[t].id].level, l)) :
                          (Y \in DOMAIN after /\ after[Y].level >= l)
                          => op[t].id \in Range(after[Y].connections[l + 1])]_vars

\* C28: after any sequence of inserts, re-inserts and deletes, whenever the
\* entry point is set, max_level is the level of the node it names.
C28_MaxLevelIsEntryLevel ==
    LET index == collections["docs"].index
    IN  (/\ AllIdle
         /\ index.entry_point # None
         /\ index.entry_point \in DOMAIN index.nodes)
        => index.max_level = index.nodes[index.entry_point].level

\* the entry point and max_level of the index
Entry(index) == <<index.entry_point, index.max_level>>

\* C29: after any sequence of inserts and deletes the entry point is unset
\* exactly when the node table is empty, and when set it names a node of
\* the table; deleting a node that is not the entry point leaves the entry
\* point and max_level as they were.
C29_EntryPointNamesNode ==
    /\ [](LET index == collections["docs"].index
          IN  /\ index.entry_point = None <=> DOMAIN index.nodes = {}
              /\ index.entry_point # None
                 => index.entry_point \in DOMAIN index.nodes)
    /\ [][\A t \in Threads :
              (/\ pc[t] = "delete_remove"
               /\ pc'[t] # "delete_remove"
               /\ op[t].id # collections["docs"].index.entry_point)
              => Entry(collections'["docs"].index)
                     = Entry(collections["docs"].index)]_vars

\* C29 witness: a delete has taken a node out of a table that holds another
\* node, and the entry point names a node of the table.
C29_EntryPointAfterDelete ==
    LET index == collections["docs"].index
    IN  /\ ret.status = "Ok"
        /\ ret.op = "delete"
        /\ ret.value[1] = TRUE
        /\ ret.call.id \in hist.deleted
        /\ ret.call.id \notin DOMAIN index.nodes
        /\ index.entry_point # None
        /\ index.entry_point \in DOMAIN index.nodes

\* C30: once concurrent inserts of one ID with different vectors, as a
\* parallel batch that repeats an ID issues them, have all completed, the
\* index node of that ID holds the vector of the store document of that ID.
C30_IndexVectorIsStoredVector ==
    LET coll == collections["docs"]
    IN  (/\ \A t \in Tasks : pc[t] = "idle"
         /\ ~coll.index_lock.poisoned)
        => \A id \in DOMAIN coll.storage \cap DOMAIN coll.index.nodes :
               coll.index.nodes[id].vector = coll.storage[id].vector

\* the loop of the layer search as specified: it ends when the closest
\* candidate is further than the worst of results and results is full
RECURSIVE specified_loop(_, _, _, _, _, _)
specified_loop(nodes, metric, query, num_closest, level, s) ==
    IF s.candidates = <<>> THEN s
    ELSE IF /\ s.w # <<>>
            /\ -s.candidates[1].distance > s.w[1].distance
            /\ Len(s.w) >= num_closest
    THEN [s EXCEPT !.candidates = heap_pop(@), !.broke = TRUE]
    ELSE specified_loop(nodes, metric, query, num_closest, level,
             sl_expand(nodes, metric, query, num_closest,
                 sl_neighbors(nodes, s.candidates[1].id, level),
                 [s EXCEPT !.candidates = heap_pop(@)]))

\* the state in which the specified layer search ends for the arguments of
\* the call r, on the index as it stands
Specified(r) ==
    specified_loop(collections["docs"].index.nodes, DocsConfig.metric,
        r.query, r.num_closest, r.level,
        sl_init(collections["docs"].index.nodes, DocsConfig.metric, r.query,
            r.entry_points,
            [visited |-> {}, candidates |-> <<>>, w |-> <<>>,
             broke |-> FALSE]))

\* C31: search_layer, started with at most ef entry points, ends at its
\* break only when results holds ef entries, and it returns the set that the
\* specified loop, which also tests that results is full, returns.
C31_BreakOnlyWhenResultsFull ==
    (/\ ret.op = "search_layer"
     /\ Len(ret.value[1].entry_points) <= ret.value[1].num_closest)
    => /\ ret.value[1].s.broke
          => Len(ret.value[1].s.w) = ret.value[1].num_closest
       /\ Range(w_ids(ret.value[1].s)) = Range(w_ids(Specified(ret.value[1])))

\* C31 witness: a layer search started with at most ef entry points has
\* ended at its break, leaving the candidate it popped unexpanded, with
\* results full.
C31_BrokeWithResultsFull ==
    /\ ret.op = "search_layer"
    /\ Len(ret.value[1].entry_points) <= ret.value[1].num_closest
    /\ ret.value[1].s.broke
    /\ Len(ret.value[1].s.w) = ret.value[1].num_closest

\* the distance of node x of the index from q
QueryDistance(q, x) ==
    calculate_distance(q, collections["docs"].index.nodes[x].vector,
                       DocsConfig.metric)

\* the nodes whose distance the layer search r evaluated: the entry points
\* and the neighbors it visited, as far as they are in the node table
Evaluated(r) == r.s.visited \cap IndexIds("docs")

\* the arguments of the layer search r are those of C32: at most ef entry
\* points, no two the same, and no two nodes at the same distance from q
DistinctDistances(r) ==
    /\ Len(r.entry_points) <= r.num_closest
    /\ \A i, j \in DOMAIN r.entry_points :
           r.entry_points[i] = r.entry_points[j] => i = j
    /\ \A x, y \in IndexIds("docs") :
           QueryDistance(r.query, x) = QueryDistance(r.query, y) => x = y

\* C32: search_layer with at most ef entry points and pairwise distinct
\* distances returns at most ef IDs, each a node of the node table, and
\* they are the ef closest to q among the nodes whose distance it
\* evaluated.
C32_ReturnsClosestEvaluated ==
    (ret.op = "search_layer" /\ DistinctDistances(ret.value[1]))
    => LET r == ret.value[1]
           ids == Range(w_ids(r.s))
       IN  /\ Len(r.s.w) <= r.num_closest
           /\ ids \subseteq Evaluated(r)
           /\ Cardinality(ids) = Min(r.num_closest, Cardinality(Evaluated(r)))
           /\ \A x \in ids, y \in Evaluated(r) \ ids :
                  QueryDistance(r.query, x) < QueryDistance(r.query, y)

\* C32 witness: a layer search with distinct distances evaluated more than
\* ef nodes, among them a neighbor closer than an entry point, and returned
\* ef of them.
C32_EntryPointEvicted ==
    /\ ret.op = "search_layer"
    /\ DistinctDistances(ret.value[1])
    /\ Cardinality(Evaluated(ret.value[1])) > ret.value[1].num_closest
    /\ Len(ret.value[1].s.w) = ret.value[1].num_closest
    /\ \E e \in Range(ret.value[1].entry_points) :
           e \in IndexIds("docs") /\ e \notin Range(w_ids(ret.value[1].s))

\* the least number of a non-empty set of numbers
Least(S) == CHOOSE x \in S : \A y \in S : x <= y

\* the distance between the nodes x and y of the index
NodeDistance(x, y) ==
    calculate_distance(collections["docs"].index.nodes[x].vector,
                       collections["docs"].index.nodes[y].vector,
                       DocsConfig.metric)

\* the score of candidate x for the query q once chosen is selected: d(q, x),
\* less the smallest distance from x to a chosen node when there is one
Score(q, x, chosen) ==
    IF chosen = {} THEN QueryDistance(q, x)
    ELSE QueryDistance(q, x) - Least({NodeDistance(x, y) : y \in chosen})

\* the k-th pick of the selection r is the earliest candidate of C, not
\* chosen before, of the smallest score
PickIsBest(r, k) ==
    LET chosen == {r.selected[i] : i \in 1..(k - 1)}
        remaining == {i \in DOMAIN r.candidates : r.candidates[i] \notin chosen}
    IN  \E j \in remaining :
            /\ r.candidates[j] = r.selected[k]
            /\ \A i \in remaining :
                   /\ Score(r.vector, r.candidates[j], chosen)
                          <= Score(r.vector, r.candidates[i], chosen)
                   /\ Score(r.vector, r.candidates[j], chosen)
                          = Score(r.vector, r.candidates[i], chosen) => j <= i

\* C33: select_neighbors_heuristic(q, C, m) returns C unchanged when
\* |C| <= m; otherwise exactly m distinct members of C, the first the
\* closest to q and each later one of the smallest score d(q, x) minus the
\* smallest distance from x to a member chosen before, equal scores going
\* to the earliest remaining candidate of C.
C33_SelectionIsGreedy ==
    ret.op = "select_neighbors"
    => LET r == ret.value[1]
       IN  IF Len(r.candidates) <= r.m
           THEN r.selected = r.candidates
           ELSE /\ Len(r.selected) = r.m
                /\ Cardinality(Range(r.selected)) = r.m
                /\ Range(r.selected) \subseteq Range(r.candidates)
                /\ \A k \in 1..r.m : PickIsBest(r, k)

\* C33 witness: two of three candidates were selected, and the first pick
\* was decided between two candidates at the same distance from q.
C33_TwoOfThreeSelected ==
    /\ ret.op = "select_neighbors"
    /\ Len(ret.value[1].candidates) = 3
    /\ ret.value[1].m = 2
    /\ Len(ret.value[1].selected) = 2
    /\ \E i \in DOMAIN ret.value[1].candidates :
           /\ ret.value[1].candidates[i] # ret.value[1].selected[1]
           /\ QueryDistance(ret.value[1].vector, ret.value[1].candidates[i])
                  = QueryDistance(ret.value[1].vector, ret.value[1].selected[1])

\* the call evaluate_filter has returned from: its document and its filter
FilterCall == ret.op = "evaluate_filter"
CallDocument ==
    VectorDocument(ret.call.id, ret.call.vector, ret.call.metadata)
CallFilter == Unwrap(ret.call.filter)

\* no pair of the document's metadata has that key, or it has no metadata
KeyAbsent(document, key) ==
    \/ ~IsSome(document.metadata)
    \/ \A i \in DOMAIN Unwrap(document.metadata) :
           Unwrap(document.metadata)[i][1] # key

\* the document with only the first pair of that key left in its metadata
FirstPairOnly(document, key) ==
    LET metadata == Unwrap(document.metadata)
        first == CHOOSE i \in DOMAIN metadata :
                     /\ metadata[i][1] = key
                     /\ \A j \in 1..(i - 1) : metadata[j][1] # key
    IN  [document EXCEPT !.metadata = Some(<<metadata[first]>>)]

\* each condition of the filter of the call is false when its key is absent
\* and otherwise decided by the first pair of its key alone
ConditionsOnFirstPair ==
    \A i \in DOMAIN CallFilter.conditions :
        LET condition == CallFilter.conditions[i]
        IN  IF KeyAbsent(CallDocument, condition.key)
            THEN ~evaluate_condition(CallDocument, condition)
            ELSE evaluate_condition(CallDocument, condition)
                     = evaluate_condition(
                           FirstPairOnly(CallDocument, condition.key),
                           condition)

\* the filter of the call matched exactly when, under And, every condition
\* holds and, under Or, at least one does
MatchedByOperator ==
    ret.value[1] =
        IF CallFilter.operator = "And"
        THEN \A i \in DOMAIN CallFilter.conditions :
                 evaluate_condition(CallDocument, CallFilter.conditions[i])
        ELSE \E i \in DOMAIN CallFilter.conditions :
                 evaluate_condition(CallDocument, CallFilter.conditions[i])

\* C34 as stated: a condition whose key the document does not have, or whose
\* document has no metadata, is false for every operation; of several pairs
\* of the key only the first is compared; And requires every condition to
\* hold and Or at least one.
C34_FilterEvaluationAsStated ==
    FilterCall => ConditionsOnFirstPair /\ MatchedByOperator

\* C34 amended: the same for a filter that has a condition; a filter
\* without conditions is not bound by the rule for Or.
C34_FilterEvaluation ==
    (FilterCall /\ CallFilter.conditions # <<>>)
    => ConditionsOnFirstPair /\ MatchedByOperator

\* C34 witness: a filter was evaluated on a document that has the key of one
\* of its conditions in two pairs of different values, and whose NotEquals
\* condition on a key it does not have is false.
C34_KeyTwiceAndKeyAbsent ==
    /\ FilterCall
    /\ IsSome(CallDocument.metadata)
    /\ \E i, j \in DOMAIN Unwrap(CallDocument.metadata) :
           /\ i < j
           /\ Unwrap(CallDocument.metadata)[i][1] = "k"
           /\ Unwrap(CallDocument.metadata)[j][1] = "k"
           /\ Unwrap(CallDocument.metadata)[i][2]
                  # Unwrap(CallDocument.metadata)[j][2]
    /\ \E i, j \in DOMAIN CallFilter.conditions :
           /\ CallFilter.conditions[i].key = "k"
           /\ CallFilter.conditions[j].key = "x"
           /\ CallFilter.conditions[j].operation = "NotEquals"
    /\ CallFilter.operator = "Or"
    /\ ret.value[1]

\* what the search of the call c returns without its filter, on the
\* collection as it stands
Unfiltered(c) ==
    join_all(collections["docs"].storage, NoneOpt,
             search(collections["docs"].index, DocsConfig, c.vector, c.limit,
                    c.ef))

\* C37: a filter without conditions matches every document, with or without
\* metadata, under And and under Or: a search that carries such a filter
\* returns what the search without filter returns.
C37_EmptyFilterMatchesAll ==
    (/\ ret.op = "search"
     /\ ret.status = "Ok"
     /\ IsSome(ret.call.filter)
     /\ Unwrap(ret.call.filter).conditions = <<>>)
    => /\ ret.value[1] = Unfiltered(ret.call)
       /\ \A id \in DOMAIN collections["docs"].storage :
              evaluate_filter(collections["docs"].storage[id],
                              Unwrap(ret.call.filter))

\* C37 witness: a search with a filter without conditions under Or has
\* returned a document that has metadata and one that has none.
C37_BothKindsReturned ==
    /\ ret.op = "search"
    /\ ret.status = "Ok"
    /\ IsSome(ret.call.filter)
    /\ Unwrap(ret.call.filter).conditions = <<>>
    /\ Unwrap(ret.call.filter).operator = "Or"
    /\ \E i, j \in DOMAIN ret.value[1] :
           /\ IsSome(ret.value[1][i][3])
           /\ ~IsSome(ret.value[1][j][3])

\* the nodes reached from the set S by following layer-0 neighbor lists
RECURSIVE Reach(_, _)
Reach(nodes, S) ==
    LET next == S \cup {y \in DOMAIN nodes :
                          \E x \in S \cap DOMAIN nodes :
                              y \in Range(nodes[x].connections[1])}
    IN  IF next = S THEN S ELSE Reach(nodes, next)

\* C36: after any sequence of inserts of pairwise distinct IDs into an empty
\* index, without deletes, every node of the node table is reached from the
\* entry point by following layer-0 neighbor lists.
C36_AllReachableAtLayerZero ==
    LET index == collections["docs"].index
    IN  (/\ hist.plain
         /\ AllIdle
         /\ index.entry_point # None)
        => DOMAIN index.nodes \subseteq Reach(index.nodes, {index.entry_point})

\* a thread has panicked, or a worker of the pool has
Panicked ==
    \/ \E t \in Tasks : pc[t] = "panicked"
    \/ \E c \in DOMAIN collections : collections[c].index_lock.poisoned

====
